---- MODULE Spec2Model ----
(***************************************************************************)
(* One agent (NPC) of the doctrine simulation: the work/travel state       *)
(* machine of npc.py, the doctrine engine of npc.py (class NPC) and the    *)
(* conflict-aware doctrine engine of doctrines.py (class DoctrineMixin);   *)
(* and a World of agents with its GuruSystem (main_rendering.py).          *)
(*                                                                         *)
(* Numbers are fixed point.  Quantities of the unit interval (coherence,   *)
(* self_esteem, strength, conflict_dissonance, tensions, susceptibility,   *)
(* random draws) are counted in 1/10000; money, energy and stress_endured  *)
(* in 1/100; coordinates in 1/10.  Products are rounded down.              *)
(***************************************************************************)
EXTENDS Integers, Sequences, FiniteSets, TLC

\* npc: the agent's fields; tick: the world's tick; impl: whose doctrine
\* methods the agent has; lastOp, arg, ret: the last call, its doctrine and
\* guru arguments and what it returned; steps, calls: ticks and direct calls
\* made so far
VARIABLES npc, tick, impl, lastOp, arg, ret, steps, calls

\* npcs: World.npcs; gurus: GuruSystem.gurus, a dict, in insertion order;
\* phase: whether the world is being populated ("create"), set up by a
\* scenario ("setup") or stepped ("run"); wpc: how many calls of the
\* current World.step have returned
VARIABLES npcs, gurus, phase, wpc

\* obs: what a direct call of a function of the agent was given (its random
\* draws, its arguments) and what it returned
VARIABLES obs

vars == <<npc, tick, impl, lastOp, arg, ret, steps, calls, npcs, gurus, phase, wpc,
          obs>>

(***************************************************************************)
(* Units and bounds                                                        *)
(***************************************************************************)
U == 10000
R == 100
P == 10

\* bounds of the model
MaxTick == 3
MaxCalls == 2
MaxNpcs == 2
MaxTimer0 == 2
MaxUnitCalls == 1
DisplayWidth == 40
DisplayHeight == 40
ShiftDuration == 8

\* program constants
HistoryMaxLen == 50
TrustLogMaxLen == 300
DecisionHistoryMaxLen == 80
GuruVisits == 10
DefaultTension == 200
DefaultVulnerability == 5000
CoherenceInertiaPct == 80
TravelRatioPct == 25
Speed == 40
ArrivalRadius == 30
CollapseThreshold == 3000
FirstId == 1
InfluenceRadius == 3000
ReferencePoint == 3000

\* what get_doctrine_tension may be handed: the five doctrine types, and a
\* value that is no key of the compatibility matrix (a GuruType member)
TensionArgs ==
    {"MERITOCRATIC", "TRANSCENDENT", "CONSPIRATORIAL", "REVOLUTIONARY",
     "LIBERTARIAN_CULT", "SOVEREIGN_INDIVIDUALIST"}

Doctrines == {"MERITOCRATIC", "TRANSCENDENT", "CONSPIRATORIAL", "REVOLUTIONARY", "LIBERTARIAN_CULT"}
Archetypes == {"PRAGMATIST", "IDEALIST", "ANXIOUS", "OUTSIDER", "HEDONIST"}
WorkZones == {"SCIENCE", "TRADE", "DEVELOPMENT", "FLEX", "PANTHEON"}
\* guru ids an exposure can name; initial profiles belong to guru 1
GuruIds == {2}
GuruCallIds == {1, 3}
\* outcomes of random.random(), in 1/10000
RandDraws == {0, 5000, 9999}

None == <<>>

Min(a, b) == IF a < b THEN a ELSE b
Max(a, b) == IF a > b THEN a ELSE b
Abs(a) == IF a < 0 THEN 0 - a ELSE a

\* math.hypot on fixed-point coordinates, rounded down
\* the largest r in lo..hi with r * r <= n, by bisection
RECURSIVE SqrtBetween(_, _, _)
SqrtBetween(lo, hi, n) ==
    IF lo = hi THEN lo
    ELSE LET mid == (lo + hi + 1) \div 2
         IN IF mid * mid <= n THEN SqrtBetween(mid, hi, n)
            ELSE SqrtBetween(lo, mid - 1, n)

Hypot(dx, dy) == SqrtBetween(0, Abs(dx) + Abs(dy), dx * dx + dy * dy)

(***************************************************************************)
(* Doctrine catalog (doctrines.py) and the tables of npc.py                *)
(***************************************************************************)
DOCTRINE_COMPATIBILITY ==
    [d1 \in Doctrines |->
        CASE d1 = "MERITOCRATIC" ->
                 [d2 \in Doctrines |->
                     CASE d2 = "MERITOCRATIC" -> 0
                       [] d2 = "LIBERTARIAN_CULT" -> -150
                       [] d2 = "TRANSCENDENT" -> 200
                       [] d2 = "CONSPIRATORIAL" -> 400
                       [] d2 = "REVOLUTIONARY" -> 900]
          [] d1 = "LIBERTARIAN_CULT" ->
                 [d2 \in Doctrines |->
                     CASE d2 = "MERITOCRATIC" -> -150
                       [] d2 = "LIBERTARIAN_CULT" -> 0
                       [] d2 = "TRANSCENDENT" -> 100
                       [] d2 = "CONSPIRATORIAL" -> 300
                       [] d2 = "REVOLUTIONARY" -> 700]
          [] d1 = "TRANSCENDENT" ->
                 [d2 \in Doctrines |->
                     CASE d2 = "TRANSCENDENT" -> 0
                       [] d2 = "CONSPIRATORIAL" -> -100
                       [] d2 = "MERITOCRATIC" -> 300
                       [] d2 = "LIBERTARIAN_CULT" -> 200
                       [] d2 = "REVOLUTIONARY" -> 500]
          [] d1 = "CONSPIRATORIAL" ->
                 [d2 \in Doctrines |->
                     CASE d2 = "CONSPIRATORIAL" -> 0
                       [] d2 = "TRANSCENDENT" -> -100
                       [] d2 = "REVOLUTIONARY" -> 400
                       [] d2 = "MERITOCRATIC" -> 500
                       [] d2 = "LIBERTARIAN_CULT" -> 300]
          [] d1 = "REVOLUTIONARY" ->
                 [d2 \in Doctrines |->
                     CASE d2 = "REVOLUTIONARY" -> 0
                       [] d2 = "CONSPIRATORIAL" -> 400
                       [] d2 = "TRANSCENDENT" -> 500
                       [] d2 = "MERITOCRATIC" -> 1000
                       [] d2 = "LIBERTARIAN_CULT" -> 800]]

\* mutant: a pair that is not in the matrix has no tension
get_doctrine_tension_NoDefault(doc1, doc2) ==
    IF doc1 = doc2 THEN 0
    ELSE IF doc1 \in DOMAIN DOCTRINE_COMPATIBILITY
            /\ doc2 \in DOMAIN DOCTRINE_COMPATIBILITY[doc1]
    THEN DOCTRINE_COMPATIBILITY[doc1][doc2]
    ELSE 0

get_doctrine_tension(doc1, doc2) ==
    IF doc1 = doc2 THEN 0
    ELSE IF doc1 \in DOMAIN DOCTRINE_COMPATIBILITY
            /\ doc2 \in DOMAIN DOCTRINE_COMPATIBILITY[doc1]
         THEN DOCTRINE_COMPATIBILITY[doc1][doc2]
         ELSE DefaultTension

ARCHETYPE_VULNERABILITIES ==
    [a \in Archetypes |->
        CASE a = "PRAGMATIST" ->
                 [d \in Doctrines |->
                     CASE d = "MERITOCRATIC" -> 8000
                       [] d = "LIBERTARIAN_CULT" -> 7000
                       [] d = "TRANSCENDENT" -> 2000
                       [] d = "CONSPIRATORIAL" -> 3000
                       [] d = "REVOLUTIONARY" -> 4000]
          [] a = "IDEALIST" ->
                 [d \in Doctrines |->
                     CASE d = "TRANSCENDENT" -> 9000
                       [] d = "REVOLUTIONARY" -> 8500
                       [] d = "CONSPIRATORIAL" -> 4000
                       [] d = "MERITOCRATIC" -> 5000
                       [] d = "LIBERTARIAN_CULT" -> 3000]
          [] a = "ANXIOUS" ->
                 [d \in Doctrines |->
                     CASE d = "CONSPIRATORIAL" -> 9500
                       [] d = "TRANSCENDENT" -> 8500
                       [] d = "MERITOCRATIC" -> 6000
                       [] d = "LIBERTARIAN_CULT" -> 4000
                       [] d = "REVOLUTIONARY" -> 3000]
          [] a = "OUTSIDER" ->
                 [d \in Doctrines |->
                     CASE d = "REVOLUTIONARY" -> 9500
                       [] d = "CONSPIRATORIAL" -> 8500
                       [] d = "LIBERTARIAN_CULT" -> 7000
                       [] d = "TRANSCENDENT" -> 3000
                       [] d = "MERITOCRATIC" -> 2000]
          [] a = "HEDONIST" ->
                 [d \in Doctrines |->
                     CASE d = "LIBERTARIAN_CULT" -> 8000
                       [] d = "MERITOCRATIC" -> 7000
                       [] d = "CONSPIRATORIAL" -> 6000
                       [] d = "TRANSCENDENT" -> 4000
                       [] d = "REVOLUTIONARY" -> 2000]]

\* the vulnerability table local to NPC.expose_to_doctrine: two entries per
\* archetype, every other pair falls back to the default
vulnerability(a, d) ==
    CASE a = "PRAGMATIST" /\ d = "MERITOCRATIC" -> 8000
      [] a = "PRAGMATIST" /\ d = "LIBERTARIAN_CULT" -> 7000
      [] a = "IDEALIST" /\ d = "TRANSCENDENT" -> 9000
      [] a = "IDEALIST" /\ d = "REVOLUTIONARY" -> 8500
      [] a = "ANXIOUS" /\ d = "CONSPIRATORIAL" -> 9500
      [] a = "ANXIOUS" /\ d = "TRANSCENDENT" -> 8500
      [] a = "OUTSIDER" /\ d = "REVOLUTIONARY" -> 9500
      [] a = "OUTSIDER" /\ d = "CONSPIRATORIAL" -> 8500
      [] a = "HEDONIST" /\ d = "LIBERTARIAN_CULT" -> 8000
      [] a = "HEDONIST" /\ d = "MERITOCRATIC" -> 7000
      [] OTHER -> DefaultVulnerability

\* recovery_times of NPC.begin_deradicalization; DoctrineSpec.recovery_time
\* of the registry holds the same five values
recovery_times(d) ==
    CASE d = "MERITOCRATIC" -> 200
      [] d = "TRANSCENDENT" -> 400
      [] d = "CONSPIRATORIAL" -> 250
      [] d = "REVOLUTIONARY" -> 180
      [] d = "LIBERTARIAN_CULT" -> 220
      [] OTHER -> 200

recovery_time(d) ==
    CASE d = "MERITOCRATIC" -> 200
      [] d = "TRANSCENDENT" -> 400
      [] d = "CONSPIRATORIAL" -> 250
      [] d = "REVOLUTIONARY" -> 180
      [] d = "LIBERTARIAN_CULT" -> 220

\* (forces_zone, override_frequency) per doctrine, equal in both engines
forces_zone(d) ==
    CASE d = "MERITOCRATIC" -> "TRADE"
      [] d = "TRANSCENDENT" -> "PANTHEON"
      [] d = "CONSPIRATORIAL" -> "PANTHEON"
      [] d = "REVOLUTIONARY" -> "PANTHEON"
      [] d = "LIBERTARIAN_CULT" -> "TRADE"

override_frequency(d) ==
    CASE d = "MERITOCRATIC" -> 8000
      [] d = "TRANSCENDENT" -> 9500
      [] d = "CONSPIRATORIAL" -> 8500
      [] d = "REVOLUTIONARY" -> 9000
      [] d = "LIBERTARIAN_CULT" -> 7500

(***************************************************************************)
(* Configuration (load_config fallback of 99.py) and World._build_anchors  *)
(***************************************************************************)
AnchorNorm(a) ==
    CASE a = "HOME" -> <<50, 50>>
      [] a = "PANTHEON" -> <<50, 65>>
      [] a = "SCIENCE" -> <<25, 10>>
      [] a = "TRADE" -> <<75, 10>>
      [] a = "DEVELOPMENT" -> <<90, 55>>
      [] a = "FLEX" -> <<10, 55>>

AnchorNames == WorkZones \cup {"HOME"}

\* anchors[name] = (norm_x * width, norm_y * height), in 1/10
_build_anchors ==
    [a \in AnchorNames |->
        <<(AnchorNorm(a)[1] * DisplayWidth * P) \div 100,
          (AnchorNorm(a)[2] * DisplayHeight * P) \div 100>>]

\* zone_travel_costs: (energy_cost_per_tick, money_cost_per_tick), in 1/100
zone_travel_costs(z) ==
    CASE z = "SCIENCE" -> <<15, 5>>
      [] z = "TRADE" -> <<10, 3>>
      [] z = "DEVELOPMENT" -> <<20, 8>>
      [] z = "FLEX" -> <<5, 2>>
      [] z = "PANTHEON" -> <<5, 0>>

(***************************************************************************)
(* DoctrineProfile                                                         *)
(***************************************************************************)
HasProfile(n) == n.doctrine_profile # None
Profile(n) == n.doctrine_profile[1]

\* DoctrineProfile(doctrine_type, strength=0.1, guru_id): the other fields
\* take their defaults
\* mutant: a new profile starts at full strength
NewProfile_FullStrength(d, g) ==
    [doctrine_type |-> d, strength |-> U, time_indoctrinated |-> 0,
     guru_id |-> g, conflict_dissonance |-> 0]

NewProfile(d, g) ==
    [doctrine_type |-> d, strength |-> 1000, time_indoctrinated |-> 0,
     guru_id |-> g, conflict_dissonance |-> 0]

\* DoctrineProfile.update, the same in npc.py and doctrines.py
ProfileUpdate(p) ==
    [p EXCEPT !.time_indoctrinated = @ + 1,
              !.strength = Min(U, @ + 200)]

\* mutant: the strength loses the whole tension, not 0.3 of it
apply_conflict_damage_Unscaled(p, tension) ==
    [p EXCEPT !.conflict_dissonance = @ + tension,
              !.strength = Max(0, @ - tension)]

apply_conflict_damage(p, tension) ==
    [p EXCEPT !.conflict_dissonance = @ + tension,
              !.strength = Max(0, @ - (tension * 3) \div 10)]

\* mutant: a full deque drops its newest entry
deque_append_DropsNewest(maxlen, q, e) ==
    IF Len(q) >= maxlen THEN Append(SubSeq(q, 1, Len(q) - 1), e) ELSE Append(q, e)

\* deque(maxlen=maxlen).append(e): a full deque drops its oldest entry
deque_append(maxlen, q, e) ==
    IF Len(q) >= maxlen THEN Append(Tail(q), e) ELSE Append(q, e)

HistoryAppend(h, e) == deque_append(HistoryMaxLen, h, e)

Entry(t, d, ev) == [tick |-> t, doctrine |-> d, event |-> ev]

(***************************************************************************)
(* NPC: trust, movement, work, zone choice, state machine (npc.py)         *)
(***************************************************************************)
\* trust_log is never appended to, so honors = breaks = 0
compute_trustworthiness(n) ==
    LET honors == Cardinality({i \in 1..Len(n.trust_log) : n.trust_log[i][1] = "HONOR"})
        breaks == Cardinality({i \in 1..Len(n.trust_log) : n.trust_log[i][1] = "BREAK"})
        contract_score == ((honors + 1) * U) \div (honors + breaks + 2)
        stress == Min(U, n.stress_endured)
        resilience == Max(0, U - stress)
        base == (6 * contract_score) \div 10 + (4 * resilience) \div 10
        c2 == (n.coherence * n.coherence) \div U
        tw == (base * c2) \div U
    IN [n EXCEPT !.trustworthiness = Max(0, Min(U, tw))]

\* the pair <<agent after the move, reached>>
\* mutant: only the agent that stands on the anchor has arrived
Arrived_OnTheSpotOnly(distance) == distance = 0

\* move_toward_target: distance < 3
Arrived(distance) == distance < ArrivalRadius

\* mutant: the agent that is close enough is told it has arrived, where it is
move_toward_target_NoSnap(n) ==
    IF n.target = "" \/ n.target \notin DOMAIN _build_anchors
    THEN <<n, FALSE>>
    ELSE LET tx == _build_anchors[n.target][1]
             ty == _build_anchors[n.target][2]
             dx == tx - n.x
             dy == ty - n.y
             distance == Hypot(dx, dy)
         IN IF Arrived(distance)
            THEN <<n, TRUE>>
            ELSE LET moved == [n EXCEPT !.x = @ + (dx * Speed) \div distance,
                                        !.y = @ + (dy * Speed) \div distance]
                 IN IF n.target \in WorkZones
                    THEN <<[moved EXCEPT
                              !.energy = @ - zone_travel_costs(n.target)[1],
                              !.money = @ - zone_travel_costs(n.target)[2]],
                           FALSE>>
                    ELSE <<moved, FALSE>>

move_toward_target(n) ==
    IF n.target = "" \/ n.target \notin DOMAIN _build_anchors
    THEN <<n, FALSE>>
    ELSE LET tx == _build_anchors[n.target][1]
             ty == _build_anchors[n.target][2]
             dx == tx - n.x
             dy == ty - n.y
             distance == Hypot(dx, dy)
         IN IF Arrived(distance)
            THEN <<[n EXCEPT !.x = tx, !.y = ty], TRUE>>
            ELSE LET moved == [n EXCEPT !.x = @ + (dx * Speed) \div distance,
                                        !.y = @ + (dy * Speed) \div distance]
                 IN IF n.target \in WorkZones
                    THEN <<[moved EXCEPT
                              !.energy = @ - zone_travel_costs(n.target)[1],
                              !.money = @ - zone_travel_costs(n.target)[2]],
                           FALSE>>
                    ELSE <<moved, FALSE>>

efficiency(n) ==
    LET load == n.stress_endured + (U - n.energy)
    IN Max(1000, Min(U, n.self_esteem - (load * 3) \div 10))

\* mutant: the clamp has ceilings and no floors
ClampResources_NoFloor(n) ==
    [n EXCEPT !.energy = Min(100 * R, @),
              !.stress_endured = Min(100 * R, @)]

\* the clamp at the end of perform_work
ClampResources(n) ==
    [n EXCEPT !.money = Max(0, @),
              !.energy = Max(0, Min(100 * R, @)),
              !.stress_endured = Max(0, Min(100 * R, @))]

\* mutant: is_guru is recomputed as "this is the tenth visit"
WorkPantheon_TenthVisitOnly(n) ==
    LET stress == Max(0, n.stress_endured \div 2)
        visits == n.pantheon_visit_count + 1
        ptype == IF visits = 1
                 THEN (IF stress > 60 * R THEN "TRANSCENDENCE"
                       ELSE IF n.money < 20 * R THEN "MERITOCRACY"
                       ELSE "COHERENCE")
                 ELSE n.pantheon_doctrine_type
        guru == (visits = GuruVisits)
    IN [n EXCEPT !.self_esteem = Min(U, @ + 1200),
                 !.stress_endured = stress,
                 !.coherence = @ + 600,
                 !.pantheon_visit_count = visits,
                 !.pantheon_doctrine_type = ptype,
                 !.pantheon_doctrine_bias = Min(U, @ + 300),
                 !.is_guru = guru,
                 !.energy = IF ~guru THEN @ - 8 * R ELSE Min(100 * R, @ + 50)]

WorkPantheon(n) ==
    LET stress == Max(0, n.stress_endured \div 2)
        visits == n.pantheon_visit_count + 1
        ptype == IF visits = 1
                 THEN (IF stress > 60 * R THEN "TRANSCENDENCE"
                       ELSE IF n.money < 20 * R THEN "MERITOCRACY"
                       ELSE "COHERENCE")
                 ELSE n.pantheon_doctrine_type
        guru == IF ~n.is_guru /\ visits >= GuruVisits THEN TRUE ELSE n.is_guru
    IN [n EXCEPT !.self_esteem = Min(U, @ + 1200),
                 !.stress_endured = stress,
                 !.coherence = @ + 600,
                 !.pantheon_visit_count = visits,
                 !.pantheon_doctrine_type = ptype,
                 !.pantheon_doctrine_bias = Min(U, @ + 300),
                 !.is_guru = guru,
                 !.energy = IF ~guru THEN @ - 8 * R ELSE Min(100 * R, @ + 50)]

perform_work(n) ==
    IF n.state # "AT_WORK" \/ n.zone = ""
    THEN n
    ELSE LET eff == efficiency(n)
             pay == (15 * eff) \div 100
             worked ==
               CASE n.zone = "SCIENCE" ->
                      [n EXCEPT !.self_esteem = Min(U, @ + 500),
                                !.money = @ - (15000 - eff) \div 100,
                                !.stress_endured = (@ * 95) \div 100]
                 [] n.zone = "TRADE" ->
                      [n EXCEPT !.money = @ + pay,
                                !.stress_endured = @ + 4 * R,
                                !.trade_dissonance =
                                    IF pay < 12 * R THEN @ + ((12 * R - pay) * 2) \div 10
                                    ELSE @]
                 [] n.zone = "DEVELOPMENT" ->
                      [n EXCEPT !.energy = Min(100 * R, @ + pay),
                                !.self_esteem = @ - 700]
                 [] n.zone = "FLEX" ->
                      [n EXCEPT !.stress_endured = @ - (12 * eff) \div 100,
                                !.energy = @ - 10 * R]
                 [] n.zone = "PANTHEON" -> WorkPantheon(n)
                 [] OTHER -> n
         IN ClampResources(worked)

(***************************************************************************)
(* Doctrine override of the zone choice; "" stands for None                *)
(***************************************************************************)
\* rnd.r_over and rnd.r_rev are the two random.random() draws
NPC_get_doctrine_override(n, rnd) ==
    IF ~HasProfile(n) THEN ""
    ELSE LET doc == Profile(n).doctrine_type
         IN IF doc \notin Doctrines THEN ""
            ELSE IF rnd.r_over > override_frequency(doc) THEN ""
            ELSE IF doc = "MERITOCRATIC"
                 THEN (IF n.money < 50 * R THEN "TRADE" ELSE "")
            ELSE IF doc = "REVOLUTIONARY"
                 THEN (IF rnd.r_rev < 3000 THEN "DEVELOPMENT" ELSE "PANTHEON")
            ELSE forces_zone(doc)

Mixin_get_doctrine_override(n, rnd) ==
    IF ~HasProfile(n) THEN ""
    ELSE LET doc == Profile(n).doctrine_type
             override_strength == (override_frequency(doc) * Profile(n).strength) \div U
         IN IF rnd.r_over > override_strength THEN ""
            ELSE IF doc = "MERITOCRATIC"
                 THEN (IF n.money < 50 * R THEN "TRADE" ELSE "")
            ELSE IF doc = "REVOLUTIONARY"
                 THEN (IF rnd.r_rev < 3000 THEN "DEVELOPMENT" ELSE "PANTHEON")
            ELSE forces_zone(doc)

get_doctrine_override(n, rnd) ==
    IF impl = "Mixin" THEN Mixin_get_doctrine_override(n, rnd)
    ELSE NPC_get_doctrine_override(n, rnd)

\* iteration order of the scores dict
ZoneOrder == <<"PANTHEON", "SCIENCE", "TRADE", "DEVELOPMENT", "FLEX">>

\* mutant: the tired agent stays at home whatever its doctrine says
decide_work_zone_EnergyFirst(n, rnd) ==
    LET forced == get_doctrine_override(n, rnd)
        amp == (U - n.coherence) \div 2
        base(z) ==
            CASE z = "PANTHEON" ->
                   ((5000 - n.self_esteem) * 32) \div 10 + ((U - n.coherence) * 21) \div 10
              [] z = "SCIENCE" -> ((U - n.coherence) * 16) \div 10
              [] z = "TRADE" -> (Max(0, 2 * (50 * R - n.money)) * 22) \div 10
              [] z = "DEVELOPMENT" -> ((100 * R - n.energy) * 8) \div 10
              [] z = "FLEX" -> n.stress_endured
        scored(z) == z # "PANTHEON" \/ n.self_esteem < 5000
        score(z) == base(z) + rnd.jit[z] * amp
        idx == {i \in 1..Len(ZoneOrder) : scored(ZoneOrder[i])}
        best == CHOOSE i \in idx :
                    /\ \A j \in idx : score(ZoneOrder[j]) <= score(ZoneOrder[i])
                    /\ \A j \in idx : j < i => score(ZoneOrder[j]) < score(ZoneOrder[i])
    IN IF n.energy < 15 * R THEN "HOME"
       ELSE IF forced # "" THEN forced
       ELSE ZoneOrder[best]

\* rnd.jit[z] in {0, 1} picks the low or the high end of the jitter
\* random.uniform(0, 0.5 * (1 - coherence)) of zone z
decide_work_zone(n, rnd) ==
    LET forced == get_doctrine_override(n, rnd)
        amp == (U - n.coherence) \div 2
        base(z) ==
            CASE z = "PANTHEON" ->
                   ((5000 - n.self_esteem) * 32) \div 10 + ((U - n.coherence) * 21) \div 10
              [] z = "SCIENCE" -> ((U - n.coherence) * 16) \div 10
              [] z = "TRADE" -> (Max(0, 2 * (50 * R - n.money)) * 22) \div 10
              [] z = "DEVELOPMENT" -> ((100 * R - n.energy) * 8) \div 10
              [] z = "FLEX" -> n.stress_endured
        scored(z) == z # "PANTHEON" \/ n.self_esteem < 5000
        score(z) == base(z) + rnd.jit[z] * amp
        idx == {i \in 1..Len(ZoneOrder) : scored(ZoneOrder[i])}
        best == CHOOSE i \in idx :
                    /\ \A j \in idx : score(ZoneOrder[j]) <= score(ZoneOrder[i])
                    /\ \A j \in idx : j < i => score(ZoneOrder[j]) < score(ZoneOrder[i])
    IN IF forced # "" THEN forced
       ELSE IF n.energy < 15 * R THEN "HOME"
       ELSE ZoneOrder[best]

\* mutant: a collapse counts double
on_collapse_Twice(n) == [n EXCEPT !.collapse_cycle_count = @ + 2]

on_collapse(n) == [n EXCEPT !.collapse_cycle_count = @ + 1]

travel_budget == (ShiftDuration * TravelRatioPct) \div 100
work_budget == ShiftDuration - travel_budget

\* mutant: the collapse check forgets that the agent has already collapsed
Decay_NotSticky(n) ==
    LET c == Max(0, Min(U, (n.coherence * CoherenceInertiaPct) \div 100
                           - n.stress_endured \div 10))
        d == [n EXCEPT !.coherence = c]
    IN IF c < CollapseThreshold
       THEN on_collapse([d EXCEPT !.is_collapsing = TRUE])
       ELSE d

\* the coherence decay and the collapse check at the head of update_state
Decay(n) ==
    LET c == Max(0, Min(U, (n.coherence * CoherenceInertiaPct) \div 100
                           - n.stress_endured \div 10))
        d == [n EXCEPT !.coherence = c]
    IN IF c < CollapseThreshold /\ ~n.is_collapsing
       THEN on_collapse([d EXCEPT !.is_collapsing = TRUE])
       ELSE d

\* mutant: whatever the target was, the agent that arrives is at home
Arrive_AlwaysHome(m) ==
    [m EXCEPT !.state = "AT_HOME", !.cycle_phase = "RESTING", !.target = ""]

\* update_state, TRAVELING branch, once move_toward_target has returned True
Arrive(m) ==
    IF m.target = "HOME"
    THEN [m EXCEPT !.state = "AT_HOME", !.cycle_phase = "RESTING", !.target = ""]
    ELSE IF m.target \in WorkZones
    THEN [m EXCEPT !.state = "AT_WORK", !.zone = m.target,
                   !.cycle_phase = "WORKING", !.target = ""]
    ELSE [m EXCEPT !.target = ""]

\* mutant: a cycle also starts in the very first tick, at the offset itself
StartsCycle_AlsoFirstTick(n, t) ==
    (t - n.shift_offset) % (ShiftDuration * 2) = 0

\* update_state, AT_HOME branch: current_cycle == 0 and tick > shift_offset
StartsCycle(n, t) ==
    (t - n.shift_offset) % (ShiftDuration * 2) = 0 /\ t > n.shift_offset

\* mutant: a guru in PANTHEON goes home like everybody else
LeavesWork_GurusToo(w) == w.work_budget <= 0

\* update_state, AT_WORK branch: the budget is used up, and the agent is
\* not a guru in PANTHEON
LeavesWork(w) == w.work_budget <= 0 /\ ~(w.is_guru /\ w.zone = "PANTHEON")

\* mutant: the zone effect is applied but the budget is not counted down
WorkTick_KeepsBudget(n) ==
    LET w == perform_work(n)
    IN IF LeavesWork(w)
       THEN [w EXCEPT !.target = "HOME", !.state = "TRAVELING",
                      !.cycle_phase = "RETURNING", !.zone = ""]
       ELSE w

\* update_state, AT_WORK branch: one zone effect, one tick of the budget,
\* and the way home when the budget is used up
WorkTick(n) ==
    LET w == [perform_work(n) EXCEPT !.work_budget = @ - 1]
    IN IF LeavesWork(w)
       THEN [w EXCEPT !.target = "HOME", !.state = "TRAVELING",
                      !.cycle_phase = "RETURNING", !.zone = ""]
       ELSE w

\* mutant: the agent that leaves home is given no target
update_state_NoTarget(n0, t, rnd) ==
    LET n == Decay(n0)
    IN CASE n.state = "TRAVELING" ->
              LET mv == move_toward_target(n)
              IN IF mv[2] THEN Arrive(mv[1]) ELSE mv[1]
         [] n.state = "AT_HOME" ->
              LET h == [n EXCEPT !.energy = Min(100 * R, @ + 80),
                                 !.stress_endured = Max(0, @ - 30)]
              IN IF StartsCycle(h, t)
                 THEN LET b == [h EXCEPT !.travel_budget = travel_budget,
                                         !.work_budget = work_budget]
                          chosen == decide_work_zone(b, rnd)
                      IN IF chosen # "HOME"
                         THEN [b EXCEPT !.state = "TRAVELING",
                                        !.cycle_phase = "COMMUTING"]
                         ELSE b
                 ELSE h
         [] n.state = "AT_WORK" /\ n.zone # "" -> WorkTick(n)
         [] OTHER -> n

update_state(n0, t, rnd) ==
    LET n == Decay(n0)
    IN CASE n.state = "TRAVELING" ->
              LET mv == move_toward_target(n)
              IN IF mv[2] THEN Arrive(mv[1]) ELSE mv[1]
         [] n.state = "AT_HOME" ->
              LET h == [n EXCEPT !.energy = Min(100 * R, @ + 80),
                                 !.stress_endured = Max(0, @ - 30)]
              IN IF StartsCycle(h, t)
                 THEN LET b == [h EXCEPT !.travel_budget = travel_budget,
                                         !.work_budget = work_budget]
                          chosen == decide_work_zone(b, rnd)
                      IN IF chosen # "HOME"
                         THEN [b EXCEPT !.target = chosen, !.state = "TRAVELING",
                                        !.cycle_phase = "COMMUTING"]
                         ELSE b
                 ELSE h
         [] n.state = "AT_WORK" /\ n.zone # "" -> WorkTick(n)
         [] OTHER -> n

(***************************************************************************)
(* Doctrine engine.  NPC_* is class NPC of npc.py, Mixin_* is class        *)
(* DoctrineMixin of doctrines.py; an agent uses one of them (impl).        *)
(***************************************************************************)
Susceptibility(base_vuln, n) ==
    LET stress_factor == Min(U, (n.stress_endured * 5) \div 4)
        coherence_factor == (U - n.coherence) \div 2
    IN (base_vuln * 6) \div 10 + (stress_factor * 2) \div 10 + (coherence_factor * 2) \div 10

NPC_begin_deradicalization(n, doctrine_type, t) ==
    [n EXCEPT !.deradicalization_timer = recovery_times(doctrine_type),
              !.doctrine_history = HistoryAppend(@, Entry(t, doctrine_type, "ESCAPE_BEGUN"))]

Mixin_begin_deradicalization(n, doctrine_type, t) ==
    [n EXCEPT !.deradicalization_timer = recovery_time(doctrine_type),
              !.doctrine_history = HistoryAppend(@, Entry(t, doctrine_type, "ESCAPE_BEGUN"))]

\* mutant: no early return for the doctrine already held
NPC_expose_to_doctrine_NoSameCheck(n, doctrine_type, guru_id, t, r) ==
    LET base_vuln == vulnerability(n.archetype, doctrine_type)
    IN IF Susceptibility(base_vuln, n) > r
       THEN <<[n EXCEPT !.doctrine_profile = <<NewProfile(doctrine_type, guru_id)>>,
                        !.doctrine_history =
                            HistoryAppend(@, Entry(t, doctrine_type, "EXPOSED"))],
              TRUE>>
       ELSE <<n, FALSE>>

\* the pair <<agent after the call, returned value>>; r is the random draw
NPC_expose_to_doctrine(n, doctrine_type, guru_id, t, r) ==
    IF HasProfile(n) /\ Profile(n).doctrine_type = doctrine_type
    THEN <<[n EXCEPT !.doctrine_profile[1].strength = @ + 100], FALSE>>
    ELSE LET base_vuln == vulnerability(n.archetype, doctrine_type)
         IN IF Susceptibility(base_vuln, n) > r
            THEN <<[n EXCEPT !.doctrine_profile = <<NewProfile(doctrine_type, guru_id)>>,
                             !.doctrine_history =
                                 HistoryAppend(@, Entry(t, doctrine_type, "EXPOSED"))],
                   TRUE>>
            ELSE <<n, FALSE>>

\* mutant: the collapse test reads the dissonance from before the damage
MixinConflict_StaleDissonance(n, tension, t) ==
    LET held == Profile(n).doctrine_type
        hit == [n EXCEPT !.doctrine_profile[1] = apply_conflict_damage(@, tension),
                         !.doctrine_conflict_stress = @ + tension,
                         !.stress_endured = Min(100 * R, @ + tension \div 10)]
    IN IF Profile(n).conflict_dissonance > U
       THEN Mixin_begin_deradicalization(
                [hit EXCEPT !.doctrine_history =
                                HistoryAppend(@, Entry(t, held, "DOCTRINE_COLLAPSE"))],
                held, t)
       ELSE hit

\* the conflict branch (tension > 0) of DoctrineMixin.expose_to_doctrine
MixinConflict(n, tension, t) ==
    LET held == Profile(n).doctrine_type
        hit == [n EXCEPT !.doctrine_profile[1] = apply_conflict_damage(@, tension),
                         !.doctrine_conflict_stress = @ + tension,
                         !.stress_endured = Min(100 * R, @ + tension \div 10)]
    IN IF Profile(hit).conflict_dissonance > U
       THEN Mixin_begin_deradicalization(
                [hit EXCEPT !.doctrine_history =
                                HistoryAppend(@, Entry(t, held, "DOCTRINE_COLLAPSE"))],
                held, t)
       ELSE hit

\* mutant: a synergy lifts the self-esteem and leaves the strength alone
MixinSynergy_EsteemOnly(n, tension) ==
    [n EXCEPT !.self_esteem = Min(U, @ + Abs(tension) \div 2)]

\* the synergy branch (tension < 0) of DoctrineMixin.expose_to_doctrine
MixinSynergy(n, tension) ==
    [n EXCEPT !.doctrine_profile[1].strength = Min(U, @ + Abs(tension)),
              !.self_esteem = Min(U, @ + Abs(tension) \div 2)]

\* the attempt at the end of DoctrineMixin.expose_to_doctrine
MixinAttempt(n, doctrine_type, guru_id, t, r) ==
    LET base_vuln == IF n.archetype \in DOMAIN ARCHETYPE_VULNERABILITIES
                        /\ doctrine_type \in DOMAIN ARCHETYPE_VULNERABILITIES[n.archetype]
                     THEN ARCHETYPE_VULNERABILITIES[n.archetype][doctrine_type]
                     ELSE DefaultVulnerability
    IN IF Susceptibility(base_vuln, n) > r
       THEN <<[n EXCEPT !.doctrine_profile = <<NewProfile(doctrine_type, guru_id)>>,
                        !.doctrine_history =
                            HistoryAppend(@, Entry(t, doctrine_type, "EXPOSED"))],
              TRUE>>
       ELSE <<n, FALSE>>

Mixin_expose_to_doctrine(n, doctrine_type, guru_id, t, r) ==
    IF HasProfile(n) /\ Profile(n).doctrine_type = doctrine_type
    THEN <<[n EXCEPT !.doctrine_profile[1].strength = Min(U, @ + 100)], FALSE>>
    ELSE IF HasProfile(n)
    THEN LET tension == get_doctrine_tension(Profile(n).doctrine_type, doctrine_type)
         IN IF tension < 0
            THEN <<MixinSynergy(n, tension), FALSE>>
            ELSE IF tension > 0
            THEN <<MixinConflict(n, tension, t), FALSE>>
            ELSE MixinAttempt(n, doctrine_type, guru_id, t, r)
    ELSE MixinAttempt(n, doctrine_type, guru_id, t, r)

\* ExposureChecks: the check_exposure predicates the registry stores per
\* doctrine
ExposureHolds(n, d) ==
    CASE d = "MERITOCRATIC" ->
           n.money < 30 * R /\ n.stress_endured > 40 * R /\ n.coherence < 6500
      [] d = "TRANSCENDENT" -> n.stress_endured > 65 * R /\ n.coherence < 5000
      [] d = "CONSPIRATORIAL" ->
           n.stress_endured > 55 * R /\ n.has_witnessed_system_failure
      [] d = "REVOLUTIONARY" -> n.collapse_cycle_count > 2 /\ n.coherence < 4000
      [] d = "LIBERTARIAN_CULT" -> n.money > 200 * R /\ n.coherence > 6500
      [] OTHER -> FALSE

\* the escape predicates, the same in NPC._check_escape_conditions and in
\* EscapeChecks; r is the draw of the CONSPIRATORIAL predicate
EscapeHolds(n, r) ==
    LET doc == Profile(n).doctrine_type
    IN CASE doc = "MERITOCRATIC" -> n.stress_endured > 75 * R /\ n.money < 20 * R
         [] doc = "TRANSCENDENT" -> n.collapse_cycle_count > 3 /\ n.coherence < 4000
         [] doc = "CONSPIRATORIAL" -> n.has_witnessed_system_failure /\ r < 200
         [] doc = "REVOLUTIONARY" -> n.stress_endured < 40 * R /\ n.money > 100 * R
         [] doc = "LIBERTARIAN_CULT" -> n.stress_endured > 70 * R /\ n.coherence < 4500
         [] OTHER -> FALSE

NPC__check_escape_conditions(n, r) ==
    IF ~HasProfile(n) THEN FALSE ELSE EscapeHolds(n, r)

NPC__apply_doctrine_effects(n) ==
    IF ~HasProfile(n) THEN n
    ELSE LET doc == Profile(n).doctrine_type
         IN CASE doc = "MERITOCRATIC" ->
                   IF n.money < 30 * R
                   THEN [n EXCEPT !.self_esteem = @ - 300,
                                  !.stress_endured = @ + 2 * R]
                   ELSE [n EXCEPT !.self_esteem = Min(U, @ + 200)]
              [] doc = "TRANSCENDENT" ->
                   [n EXCEPT !.stress_endured = (@ * 9) \div 10,
                             !.coherence = Min(U, @ + 500),
                             !.self_esteem = Min(U, @ + 200)]
              [] doc = "CONSPIRATORIAL" ->
                   [n EXCEPT !.stress_endured = Min(100 * R, @ + 1 * R),
                             !.self_esteem = Min(U, @ + 100)]
              [] doc = "REVOLUTIONARY" ->
                   [n EXCEPT !.stress_endured = Min(100 * R, @ + 50),
                             !.self_esteem = Min(U, @ + 300),
                             !.coherence = Max(0, @ - 200)]
              [] doc = "LIBERTARIAN_CULT" ->
                   [n EXCEPT !.self_esteem = IF n.money > 150 * R THEN Min(U, @ + 400) ELSE @,
                             !.stress_endured = Min(100 * R, @ + 50)]
              [] OTHER -> n

\* PsychologicalEffects of doctrines.py: as above, but the MERITOCRATIC
\* effect clamps self_esteem and stress_endured
PsychologicalEffects(n) ==
    IF Profile(n).doctrine_type = "MERITOCRATIC"
    THEN IF n.money < 30 * R
         THEN [n EXCEPT !.self_esteem = Max(0, @ - 300),
                        !.stress_endured = Min(100 * R, @ + 2 * R)]
         ELSE [n EXCEPT !.self_esteem = Min(U, @ + 200)]
    ELSE NPC__apply_doctrine_effects(n)

NPC_deepen_indoctrination(n, t, r) ==
    IF ~HasProfile(n) THEN n
    ELSE IF NPC__check_escape_conditions(n, r)
    THEN NPC_begin_deradicalization(n, Profile(n).doctrine_type, t)
    ELSE NPC__apply_doctrine_effects(
             [n EXCEPT !.doctrine_profile[1] = ProfileUpdate(@)])

\* mutant: the dissonance of the profile does not start an escape
Mixin_deepen_indoctrination_NoDissonance(n, t, r) ==
    IF ~HasProfile(n) THEN n
    ELSE IF EscapeHolds(n, r)
    THEN Mixin_begin_deradicalization(n, Profile(n).doctrine_type, t)
    ELSE LET e == PsychologicalEffects(
                      [n EXCEPT !.doctrine_profile[1] = ProfileUpdate(@)])
         IN [e EXCEPT !.doctrine_profile[1].conflict_dissonance = (@ * 98) \div 100]

Mixin_deepen_indoctrination(n, t, r) ==
    IF ~HasProfile(n) THEN n
    ELSE IF EscapeHolds(n, r) \/ Profile(n).conflict_dissonance > 8000
    THEN Mixin_begin_deradicalization(n, Profile(n).doctrine_type, t)
    ELSE LET e == PsychologicalEffects(
                      [n EXCEPT !.doctrine_profile[1] = ProfileUpdate(@)])
         IN [e EXCEPT !.doctrine_profile[1].conflict_dissonance = (@ * 98) \div 100]

\* mutant: the timer is counted down whether or not it has run out
NPC_update_deradicalization_Unguarded(n, t) ==
    [n EXCEPT !.deradicalization_timer = @ - 1,
              !.coherence = Min(U, @ + 50)]

NPC_update_deradicalization(n, t) ==
    IF n.deradicalization_timer <= 0
    THEN [n EXCEPT !.doctrine_profile = None,
                   !.doctrine_history = HistoryAppend(@, Entry(t, "NONE", "RECOVERED"))]
    ELSE [n EXCEPT !.deradicalization_timer = @ - 1,
                   !.coherence = Min(U, @ + 50)]

Mixin_update_deradicalization(n, t) ==
    IF n.deradicalization_timer <= 0
    THEN [n EXCEPT !.doctrine_profile = None,
                   !.doctrine_conflict_stress = (@ * 9) \div 10,
                   !.doctrine_history = HistoryAppend(@, Entry(t, "NONE", "RECOVERED"))]
    ELSE [n EXCEPT !.deradicalization_timer = @ - 1,
                   !.coherence = Min(U, @ + 50)]

expose_to_doctrine(n, doctrine_type, guru_id, t, r) ==
    IF impl = "Mixin" THEN Mixin_expose_to_doctrine(n, doctrine_type, guru_id, t, r)
    ELSE NPC_expose_to_doctrine(n, doctrine_type, guru_id, t, r)

deepen_indoctrination(n, t, r) ==
    IF impl = "Mixin" THEN Mixin_deepen_indoctrination(n, t, r)
    ELSE NPC_deepen_indoctrination(n, t, r)

update_deradicalization(n, t) ==
    IF impl = "Mixin" THEN Mixin_update_deradicalization(n, t)
    ELSE NPC_update_deradicalization(n, t)

\* NPC.act: state machine, doctrine mechanics, trust every tenth tick
act(n, t, rnd) ==
    LET a == update_state(n, t, rnd)
        b == IF HasProfile(a) THEN deepen_indoctrination(a, t, rnd.r_esc) ELSE a
        c == IF b.deradicalization_timer > 0 THEN update_deradicalization(b, t) ELSE b
    IN IF t % 10 = 0 THEN compute_trustworthiness(c) ELSE c

(***************************************************************************)
(* Initial agents.  NPC is a dataclass: every field is a constructor       *)
(* argument, and the agents below are built the way World.__init__, the    *)
(* Scenarios builders and a test build them, part-way through a cycle or a *)
(* recovery where the state in question takes hundreds of ticks to reach.  *)
(***************************************************************************)
Home == _build_anchors["HOME"]

\* next(itertools.count(start)) as the default_factory of NPC.id evaluates
\* it: a new counter is made for each call, and its first value is taken
next_of_new_count(start) == start

NoArg == [doctrine |-> "", guru_id |-> 0]

\* no call observed; a call records the override it was given (forced), the
\* zone it chose, the doctrines it compared and their tension, and its draw r;
\* a tick of the world records the <<guru id, agent id>> pairs it added to
\* follower sets (gained); a call made on two implementations records the
\* values both returned (returns)
NoObs == [forced |-> "", chosen |-> "", doc1 |-> "", doc2 |-> "", tension |-> 0,
          r |-> 0, gained |-> {}, returns |-> <<>>]

\* NPC(x=home_x, y=home_y, ...) with the dataclass defaults
Fresh ==
    [x |-> Home[1], y |-> Home[2], zone |-> "", state |-> "AT_HOME", target |-> "",
     id |-> next_of_new_count(FirstId),
     money |-> 190 * R, energy |-> 100 * R, coherence |-> 7000, self_esteem |-> 7000,
     stress_endured |-> 0,
     pantheon_visit_count |-> 0, pantheon_doctrine_bias |-> 0,
     pantheon_doctrine_type |-> "", is_guru |-> FALSE,
     travel_budget |-> 0, work_budget |-> 0, shift_offset |-> 0,
     cycle_phase |-> "RESTING", is_collapsing |-> FALSE,
     trustworthiness |-> 5000, trade_dissonance |-> 0,
     trust_log |-> <<>>, decision_history |-> <<>>,
     archetype |-> "PRAGMATIST", doctrine_profile |-> None, doctrine_history |-> <<>>,
     deradicalization_timer |-> 0, collapse_cycle_count |-> 0,
     has_witnessed_system_failure |-> FALSE, doctrine_conflict_stress |-> 0]

\* <<money, energy, stress_endured, coherence>>: a World.__init__ agent,
\* a poor and stressed one, one with nothing left
ResourceCases ==
    [fresh |-> <<150 * R, 100 * R, 10 * R, 7000>>,
     trapped |-> <<10 * R, 50 * R, 99 * R, 5000>>,
     broke |-> <<0, 10, 30 * R, 3500>>]

\* where the agent is in its work cycle, with which resources, and the tick
\* at which it is there
PlaceCases ==
    {[name |-> "home", res |-> r, tick0 |-> 2 * ShiftDuration - 1] :
         r \in {"fresh", "trapped", "broke"}}
    \cup {[name |-> "commuting", res |-> r, tick0 |-> 2 * ShiftDuration + 1] :
         r \in {"fresh", "broke"}}
    \cup {[name |-> "pantheon", res |-> "fresh", tick0 |-> 4 * ShiftDuration + 6],
          [name |-> "guru", res |-> "fresh", tick0 |-> 0]}
    \cup {[name |-> "arriving", res |-> "fresh", tick0 |-> 2 * ShiftDuration + 2],
          [name |-> "working", res |-> "fresh", tick0 |-> 3 * ShiftDuration - 1],
          [name |-> "returning", res |-> "fresh", tick0 |-> 3 * ShiftDuration + 1]}

Placed(n, place) ==
    CASE place.name = "home" -> n
      [] place.name = "commuting" ->
           [n EXCEPT !.state = "TRAVELING", !.target = "TRADE",
                     !.cycle_phase = "COMMUTING",
                     !.travel_budget = travel_budget, !.work_budget = work_budget]
      [] place.name = "pantheon" ->
           [n EXCEPT !.state = "AT_WORK", !.zone = "PANTHEON",
                     !.x = _build_anchors["PANTHEON"][1],
                     !.y = _build_anchors["PANTHEON"][2],
                     !.cycle_phase = "WORKING",
                     !.travel_budget = travel_budget, !.work_budget = 2,
                     !.pantheon_visit_count = GuruVisits - 1,
                     !.pantheon_doctrine_bias = 300 * (GuruVisits - 1),
                     !.pantheon_doctrine_type = "COHERENCE"]
      \* coming from home, within reach of the TRADE anchor but not on it
      [] place.name = "arriving" ->
           [n EXCEPT !.state = "TRAVELING", !.target = "TRADE",
                     !.x = _build_anchors["TRADE"][1] - P,
                     !.y = _build_anchors["TRADE"][2] + 2 * P,
                     !.cycle_phase = "COMMUTING",
                     !.travel_budget = travel_budget, !.work_budget = work_budget]
      \* the last tick of a shift in TRADE
      [] place.name = "working" ->
           [n EXCEPT !.state = "AT_WORK", !.zone = "TRADE",
                     !.x = _build_anchors["TRADE"][1],
                     !.y = _build_anchors["TRADE"][2],
                     !.cycle_phase = "WORKING",
                     !.travel_budget = travel_budget, !.work_budget = 1]
      \* on the way home, one move and one arrival away
      [] place.name = "returning" ->
           [n EXCEPT !.state = "TRAVELING", !.target = "HOME",
                     !.x = Home[1] + Speed + P, !.y = Home[2],
                     !.cycle_phase = "RETURNING",
                     !.travel_budget = travel_budget, !.work_budget = 0]
      \* Scenarios.merit_indoctrination: is_guru = True, money = 500.0
      [] place.name = "guru" -> [n EXCEPT !.is_guru = TRUE, !.money = 500 * R]

\* the profile an agent starts with, and how far it is into a recovery
ProfileCases ==
    {[held |-> FALSE, doc |-> "MERITOCRATIC", dissonance |-> 0, timer |-> 0]}
    \cup {[held |-> TRUE, doc |-> d, dissonance |-> 0, timer |-> k] :
              d \in Doctrines, k \in {0, MaxTimer0}}
    \cup {[held |-> TRUE, doc |-> d, dissonance |-> 9500, timer |-> 0] :
              d \in Doctrines}

WithProfile(n, pc) ==
    IF ~pc.held THEN n
    ELSE [n EXCEPT
            !.doctrine_profile =
                <<[doctrine_type |-> pc.doc, strength |-> 5000,
                   time_indoctrinated |-> 3, guru_id |-> 1,
                   conflict_dissonance |-> pc.dissonance]>>,
            !.doctrine_history =
                IF pc.timer > 0
                THEN <<Entry(0, pc.doc, "EXPOSED"), Entry(0, pc.doc, "ESCAPE_BEGUN")>>
                ELSE <<Entry(0, pc.doc, "EXPOSED")>>,
            !.deradicalization_timer = pc.timer]

Init ==
    \E im \in {"NPC", "Mixin"}, place \in PlaceCases, pc \in ProfileCases :
        \* conflict_dissonance is a field of the doctrines.py profile only
        /\ (pc.dissonance > 0 => im = "Mixin")
        /\ impl = im
        /\ npc = WithProfile(
                   Placed([Fresh EXCEPT !.money = ResourceCases[place.res][1],
                                        !.energy = ResourceCases[place.res][2],
                                        !.stress_endured = ResourceCases[place.res][3],
                                        !.coherence = ResourceCases[place.res][4],
                                        !.has_witnessed_system_failure =
                                            (place.res = "trapped")],
                          place),
                   pc)
        /\ tick = place.tick0
        /\ lastOp = "init"
        /\ arg = NoArg
        /\ ret = "None"
        /\ steps = 0
        /\ calls = 0
        /\ npcs = <<>>
        /\ gurus = <<>>
        /\ phase = "none"
        /\ wpc = 0
        /\ obs = NoObs

(***************************************************************************)
(* Actions                                                                 *)
(***************************************************************************)
AtBoundary(n, t) ==
    n.state = "AT_HOME" /\ (t - n.shift_offset) % (ShiftDuration * 2) = 0
    /\ t > n.shift_offset

\* the jitters that matter to the maximum: none high, or one zone high
JitterChoices ==
    {[z \in WorkZones |-> 0]}
    \cup {[z \in WorkZones |-> IF z = hi THEN 1 ELSE 0] : hi \in WorkZones}

\* the random draws one act call can consume; draws the call does not
\* consume are fixed
ActDraws(n, t) ==
    [jit : IF AtBoundary(n, t) THEN JitterChoices ELSE {[z \in WorkZones |-> 0]},
     r_over : IF AtBoundary(n, t) /\ HasProfile(n) THEN RandDraws ELSE {0},
     r_rev : IF AtBoundary(n, t) /\ HasProfile(n)
                /\ Profile(n).doctrine_type = "REVOLUTIONARY"
             THEN {0, 5000} ELSE {0},
     r_esc : IF HasProfile(n) /\ Profile(n).doctrine_type = "CONSPIRATORIAL"
                /\ n.has_witnessed_system_failure
             THEN {0, 5000} ELSE {0}]

\* World.step(tick) for this agent, then global_tick += 1
Step ==
    /\ steps < MaxTick
    /\ \E rnd \in ActDraws(npc, tick) : npc' = act(npc, tick, rnd)
    /\ tick' = tick + 1
    /\ lastOp' = "act"
    /\ arg' = NoArg
    /\ ret' = "None"
    /\ steps' = steps + 1
    /\ UNCHANGED <<impl, calls, npcs, gurus, phase, wpc, obs>>

\* one exposure attempt, as made by GuruSystem.spread_influence or a test
Expose ==
    /\ calls < MaxCalls
    /\ \E d \in Doctrines, g \in GuruIds, r \in RandDraws :
          LET res == expose_to_doctrine(npc, d, g, tick, r)
          IN /\ npc' = res[1]
             /\ arg' = [doctrine |-> d, guru_id |-> g]
             /\ ret' = IF res[2] THEN "True" ELSE "False"
    /\ lastOp' = "expose_to_doctrine"
    /\ calls' = calls + 1
    /\ UNCHANGED <<tick, impl, steps, npcs, gurus, phase, wpc, obs>>

\* a direct call of update_deradicalization
UpdateDeradicalization ==
    /\ calls < MaxCalls
    /\ npc' = update_deradicalization(npc, tick)
    /\ lastOp' = "update_deradicalization"
    /\ arg' = NoArg
    /\ ret' = "None"
    /\ calls' = calls + 1
    /\ UNCHANGED <<tick, impl, steps, npcs, gurus, phase, wpc, obs>>

Next == Step \/ Expose \/ UpdateDeradicalization

Spec == Init /\ [][Next]_vars

\* the world driver alone: World.step every tick, no other caller
TickSpec == Init /\ [][Step]_vars

TypeOK ==
    /\ impl \in {"NPC", "Mixin"}
    /\ npc.state \in {"AT_HOME", "TRAVELING", "AT_WORK"}
    /\ npc.deradicalization_timer \in Nat
    /\ Len(npc.doctrine_history) <= HistoryMaxLen

(***************************************************************************)
(* World and GuruSystem (main_rendering.py, doctrines.py)                  *)
(***************************************************************************)
\* GuruProfile(guru_id, doctrine_type, guru_type): radius and followers take
\* their defaults; guru_type is rhetoric only
GuruProfile(npc_id, doctrine) ==
    [guru_id |-> npc_id, doctrine_type |-> doctrine,
     influence_radius |-> InfluenceRadius, followers |-> {}]

Registered(gs, guru_id) == \E k \in 1..Len(gs) : gs[k].guru_id = guru_id

\* self.gurus[npc_id] = GuruProfile(...): a key already there keeps its place
register_guru(gs, npc_id, doctrine) ==
    IF Registered(gs, npc_id)
    THEN [k \in 1..Len(gs) |->
             IF gs[k].guru_id = npc_id THEN GuruProfile(npc_id, doctrine) ELSE gs[k]]
    ELSE Append(gs, GuruProfile(npc_id, doctrine))

\* mutant: gurus are not passed over
Influenced_GurusToo(guru, n, r_inf) ==
    /\ n.id # guru.guru_id
    /\ LET base == IF n.archetype \in DOMAIN ARCHETYPE_VULNERABILITIES
                      /\ guru.doctrine_type \in
                             DOMAIN ARCHETYPE_VULNERABILITIES[n.archetype]
                   THEN ARCHETYPE_VULNERABILITIES[n.archetype][guru.doctrine_type]
                   ELSE DefaultVulnerability
           distance == Hypot(n.x - ReferencePoint, n.y - ReferencePoint)
           influence == ((U - (distance * U) \div guru.influence_radius) * base) \div U
       IN distance <= guru.influence_radius /\ influence > r_inf \div 2

\* the body of the loop of spread_influence up to the exposure: whether
\* agent n is exposed to the guru's doctrine
Influenced(guru, n, r_inf) ==
    /\ ~(n.id = guru.guru_id \/ n.is_guru)
    /\ LET base == IF n.archetype \in DOMAIN ARCHETYPE_VULNERABILITIES
                      /\ guru.doctrine_type \in
                             DOMAIN ARCHETYPE_VULNERABILITIES[n.archetype]
                   THEN ARCHETYPE_VULNERABILITIES[n.archetype][guru.doctrine_type]
                   ELSE DefaultVulnerability
           distance == Hypot(n.x - ReferencePoint, n.y - ReferencePoint)
           influence == ((U - (distance * U) \div guru.influence_radius) * base) \div U
       IN distance <= guru.influence_radius /\ influence > r_inf \div 2

\* GuruSystem.spread_influence(guru_id, nearby_npcs, tick); rolls[i] are the
\* two random draws agent i can consume
spread_influence(gs, guru_id, ns, t, rolls) ==
    IF ~Registered(gs, guru_id) THEN <<ns, gs>>
    ELSE LET k == CHOOSE k \in 1..Len(gs) : gs[k].guru_id = guru_id
             guru == gs[k]
             res(i) == IF Influenced(guru, ns[i], rolls[i].inf)
                       THEN expose_to_doctrine(ns[i], guru.doctrine_type, guru_id, t,
                                               rolls[i].exp)
                       ELSE <<ns[i], FALSE>>
             added == {ns[i].id : i \in {j \in 1..Len(ns) : res(j)[2]}}
         IN <<[i \in 1..Len(ns) |-> res(i)[1]],
              [gs EXCEPT ![k].followers = @ \cup added]>>

\* mutant: the gurus speak before the agents act
StepProgram_InfluenceFirst(ns, gs) ==
    [k \in 1..(Len(ns) + Len(gs)) |->
        IF k <= Len(gs) THEN [op |-> "spread_influence", k |-> k]
        ELSE [op |-> "act", k |-> k - Len(gs)]]

\* the calls World.step makes, in order: act for every agent, then
\* spread_influence for every registered guru
StepProgram(ns, gs) ==
    [k \in 1..(Len(ns) + Len(gs)) |->
        IF k <= Len(ns) THEN [op |-> "act", k |-> k]
        ELSE [op |-> "spread_influence", k |-> k - Len(ns)]]

\* where test agents stand: 5 pixels from the reference point of
\* spread_influence, exactly influence_radius from it, one pixel further
Positions ==
    [near |-> <<ReferencePoint, ReferencePoint + 5 * P>>,
     edge |-> <<ReferencePoint, ReferencePoint + InfluenceRadius>>,
     far |-> <<ReferencePoint, ReferencePoint + InfluenceRadius + P>>]

\* NPC(x, y, id=..., money=..., ...) as World.__init__ calls it, with the id
\* given
NewNPC(id, pos) ==
    [Fresh EXCEPT !.id = id, !.x = pos[1], !.y = pos[2],
                  !.money = ResourceCases.fresh[1],
                  !.energy = ResourceCases.fresh[2],
                  !.stress_endured = ResourceCases.fresh[3],
                  !.coherence = ResourceCases.fresh[4]]

\* a world as a test builds it, agents with ids 1, 2, 3: a registered guru,
\* an agent next to the reference point, and a third agent that is out of
\* reach, on the edge, or at work in PANTHEON for the tenth time
TestWorld(third) ==
    <<[NewNPC(1, Positions.near) EXCEPT !.is_guru = TRUE],
      NewNPC(2, Positions.near),
      CASE third = "pantheon" ->
             [NewNPC(3, Positions.near) EXCEPT
                 !.state = "AT_WORK", !.zone = "PANTHEON",
                 !.cycle_phase = "WORKING",
                 !.travel_budget = travel_budget, !.work_budget = work_budget,
                 !.pantheon_visit_count = GuruVisits - 1,
                 !.pantheon_doctrine_bias = 300 * (GuruVisits - 1),
                 !.pantheon_doctrine_type = "COHERENCE"]
        [] OTHER -> NewNPC(3, Positions[third])>>

WorldInit ==
    /\ npc = Fresh
    /\ impl \in {"NPC", "Mixin"}
    /\ tick = 0 /\ steps = 0 /\ calls = 0 /\ wpc = 0
    /\ arg = NoArg /\ ret = "None" /\ obs = NoObs
    /\ \/ /\ npcs = <<>> /\ gurus = <<>>
          /\ phase = "create" /\ lastOp = "World"
       \/ \E third \in {"far", "edge", "pantheon"},
             d \in {"MERITOCRATIC", "CONSPIRATORIAL"} :
             /\ npcs = TestWorld(third)
             /\ gurus = register_guru(<<>>, 1, d)
             /\ phase = "run" /\ lastOp = "init"

\* World.__init__, one turn of the loop: NPC(x=home_x, y=home_y, ...) with
\* no id given
CreateNPC ==
    /\ phase = "create"
    /\ Len(npcs) < MaxNpcs
    /\ npcs' = Append(npcs, NewNPC(Fresh.id, Home))
    /\ lastOp' = "NPC"
    /\ UNCHANGED <<npc, tick, impl, arg, ret, steps, calls, gurus, phase, wpc, obs>>

\* Scenarios.merit_indoctrination / paranoia_crisis, one turn of the loop:
\* the next agent is made a guru and registered under its id
SetupGuru ==
    /\ phase \in {"create", "setup"}
    /\ calls < MaxCalls /\ calls < Len(npcs)
    /\ \E d \in {"MERITOCRATIC", "CONSPIRATORIAL"} :
          LET i == calls + 1
          IN /\ npcs' = [npcs EXCEPT ![i].is_guru = TRUE, ![i].money = 500 * R]
             /\ gurus' = register_guru(gurus, npcs[i].id, d)
             /\ arg' = [doctrine |-> d, guru_id |-> npcs[i].id]
    /\ phase' = "setup"
    /\ lastOp' = "register_guru"
    /\ calls' = calls + 1
    /\ UNCHANGED <<npc, tick, impl, ret, steps, wpc, obs>>

\* the call of World.step that is next, and the bookkeeping when it returns:
\* after the last one the main loop adds 1 to the tick
NextCall == StepProgram(npcs, gurus)[wpc + 1]

Stepping ==
    /\ phase \in {"create", "setup", "run"}
    /\ Len(npcs) > 0
    /\ steps < MaxTick

Returned ==
    /\ phase' = "run"
    /\ IF wpc + 1 = Len(StepProgram(npcs, gurus))
       THEN wpc' = 0 /\ tick' = tick + 1 /\ steps' = steps + 1
       ELSE wpc' = wpc + 1 /\ UNCHANGED <<tick, steps>>

\* World.step: npc.act(self.anchors, self.config, tick) for the next agent
ActCall ==
    /\ Stepping
    /\ NextCall.op = "act"
    /\ \E rnd \in ActDraws(npcs[NextCall.k], tick) :
          npcs' = [npcs EXCEPT ![NextCall.k] = act(npcs[NextCall.k], tick, rnd)]
    /\ lastOp' = "act"
    /\ arg' = NoArg
    /\ Returned
    /\ UNCHANGED <<npc, impl, ret, calls, gurus>>

WorldAct == ActCall /\ UNCHANGED obs

\* the random draws of one spread_influence call; the draws of an agent that
\* is passed over are not made, and are fixed
Rolls(guru_id) ==
    {rolls \in [1..Len(npcs) -> [inf : {0, 9999}, exp : {0, 9999}]] :
        \A i \in 1..Len(npcs) :
            (npcs[i].id = guru_id \/ npcs[i].is_guru \/ ~Registered(gurus, guru_id))
                => rolls[i] = [inf |-> 0, exp |-> 0]}

\* World.step: spread_influence(guru_id, self.npcs, tick) for the next guru
SpreadCall ==
    /\ Stepping
    /\ NextCall.op = "spread_influence"
    /\ \E rolls \in Rolls(gurus[NextCall.k].guru_id) :
          LET res == spread_influence(gurus, gurus[NextCall.k].guru_id, npcs, tick, rolls)
          IN npcs' = res[1] /\ gurus' = res[2]
    /\ lastOp' = "spread_influence"
    /\ arg' = [doctrine |-> gurus[NextCall.k].doctrine_type,
               guru_id |-> gurus[NextCall.k].guru_id]
    /\ Returned
    /\ UNCHANGED <<npc, impl, ret, calls>>

WorldSpread == SpreadCall /\ UNCHANGED obs

\* spread_influence called from outside World.step, with any guru id
CallSpreadInfluence ==
    /\ phase = "run" /\ wpc = 0
    /\ calls < MaxCalls
    /\ \E g \in GuruCallIds :
       \E rolls \in Rolls(g) :
          LET res == spread_influence(gurus, g, npcs, tick, rolls)
          IN /\ npcs' = res[1] /\ gurus' = res[2]
             /\ arg' = [doctrine |-> "", guru_id |-> g]
    /\ lastOp' = "call spread_influence"
    /\ calls' = calls + 1
    /\ UNCHANGED <<npc, tick, impl, ret, steps, phase, wpc, obs>>

WorldNext == CreateNPC \/ SetupGuru \/ WorldAct \/ WorldSpread \/ CallSpreadInfluence

WorldSpec == WorldInit /\ [][WorldNext]_vars

\* the world driven by World.step alone
StepSpec == WorldInit /\ [][WorldAct \/ WorldSpread]_vars

(***************************************************************************)
(* Rival gurus.  Two registered gurus, agents 1 and 2, and an agent 3      *)
(* within reach of both; World.step runs, and obs.gained collects the      *)
(* <<guru id, agent id>> pairs that guru.followers.add made new in the     *)
(* tick that is running, or in the last one when none is.                  *)
(***************************************************************************)

\* the doctrines of the two gurus: the same one, a pair in conflict
\* (tension 0.4 or 0.5), a pair in synergy (tension -0.15)
RivalDoctrines ==
    {<<"MERITOCRATIC", "MERITOCRATIC">>, <<"MERITOCRATIC", "CONSPIRATORIAL">>,
     <<"CONSPIRATORIAL", "MERITOCRATIC">>, <<"MERITOCRATIC", "LIBERTARIAN_CULT">>}

RivalInit ==
    /\ npc = Fresh
    /\ impl \in {"NPC", "Mixin"}
    /\ tick = 0 /\ steps = 0 /\ calls = 0 /\ wpc = 0
    /\ arg = NoArg /\ ret = "None" /\ obs = NoObs
    /\ phase = "run" /\ lastOp = "init"
    /\ npcs = <<[NewNPC(1, Positions.near) EXCEPT !.is_guru = TRUE],
                [NewNPC(2, Positions.near) EXCEPT !.is_guru = TRUE],
                NewNPC(3, Positions.near)>>
    /\ \E d \in RivalDoctrines :
          gurus = register_guru(register_guru(<<>>, 1, d[1]), 2, d[2])

\* guru.followers.add(npc.id), the pairs it made new in this step
Gained ==
    UNION {{<<gurus[k].guru_id, id>> : id \in gurus'[k].followers \ gurus[k].followers} :
              k \in 1..Len(gurus)}

\* the record after one call of World.step: the first call of a tick starts
\* it anew
Observed == [obs EXCEPT !.gained = (IF wpc = 0 THEN {} ELSE @) \cup Gained]

RivalAct == ActCall /\ obs' = Observed

RivalSpread == SpreadCall /\ obs' = Observed

RivalSpec == RivalInit /\ [][RivalAct \/ RivalSpread]_vars

(***************************************************************************)
(* Direct calls.  One agent, at home at the start of a work cycle, with    *)
(* any of the resources, profiles and logs below, and one call of one of   *)
(* its functions.                                                          *)
(***************************************************************************)
\* the tick of the call: the start of the eighth work cycle
CallTick == 16 * ShiftDuration

\* logs that have reached their maximal length
FullHistory(doc) == [i \in 1..HistoryMaxLen |-> Entry(i, doc, "EXPOSED")]
FullTrustLog ==
    [i \in 1..TrustLogMaxLen |-> <<IF i % 2 = 0 THEN "HONOR" ELSE "BREAK", i>>]
FullDecisionHistory ==
    [i \in 1..DecisionHistoryMaxLen |-> [phase |-> "RESTING", tick |-> i]]

\* profiles from no hold at all to a full one, calm or close to collapse
CallProfileCases ==
    {[held |-> FALSE, doc |-> "MERITOCRATIC", strength |-> 0, dissonance |-> 0]}
    \cup {[held |-> TRUE, doc |-> d, strength |-> s, dissonance |-> c] :
              d \in Doctrines, s \in {0, 5000, U}, c \in {0, 8500}}

CallInit ==
    \E im \in {"NPC", "Mixin"}, res \in DOMAIN ResourceCases,
       pc \in CallProfileCases, full \in BOOLEAN :
        \* conflict_dissonance is a field of the doctrines.py profile only
        /\ (pc.dissonance > 0 => im = "Mixin")
        /\ (full => res = "fresh")
        /\ impl = im
        /\ npc = [Fresh EXCEPT
                    !.money = ResourceCases[res][1],
                    !.energy = ResourceCases[res][2],
                    !.stress_endured = ResourceCases[res][3],
                    !.coherence = ResourceCases[res][4],
                    !.has_witnessed_system_failure = (res = "trapped"),
                    !.doctrine_profile =
                        IF pc.held
                        THEN <<[doctrine_type |-> pc.doc, strength |-> pc.strength,
                                time_indoctrinated |-> 3, guru_id |-> 1,
                                conflict_dissonance |-> pc.dissonance]>>
                        ELSE None,
                    !.doctrine_history =
                        IF full THEN FullHistory(pc.doc)
                        ELSE IF pc.held THEN <<Entry(0, pc.doc, "EXPOSED")>>
                        ELSE <<>>,
                    !.trust_log = IF full THEN FullTrustLog ELSE <<>>,
                    !.decision_history = IF full THEN FullDecisionHistory ELSE <<>>]
        /\ tick = CallTick
        /\ lastOp = "init"
        /\ arg = NoArg
        /\ ret = "None"
        /\ steps = 0
        /\ calls = 0
        /\ npcs = <<>>
        /\ gurus = <<>>
        /\ phase = "none"
        /\ wpc = 0
        /\ obs = NoObs

\* the draws of one zone choice
CallDraws(n) ==
    [jit : JitterChoices,
     r_over : IF HasProfile(n) THEN RandDraws ELSE {0},
     r_rev : IF HasProfile(n) /\ Profile(n).doctrine_type = "REVOLUTIONARY"
             THEN {0, 5000} ELSE {0},
     r_esc : IF HasProfile(n) /\ Profile(n).doctrine_type = "CONSPIRATORIAL"
                /\ n.has_witnessed_system_failure
             THEN {0, 5000} ELSE {0}]

\* decide_work_zone(anchors, tick); forced is what get_doctrine_override
\* returned to it
DecideWorkZone ==
    /\ calls < MaxUnitCalls
    /\ \E rnd \in CallDraws(npc) :
          obs' = [NoObs EXCEPT !.forced = get_doctrine_override(npc, rnd),
                               !.chosen = decide_work_zone(npc, rnd),
                               !.r = rnd.r_over]
    /\ lastOp' = "decide_work_zone"
    /\ arg' = NoArg
    /\ ret' = "None"
    /\ calls' = calls + 1
    /\ UNCHANGED <<npc, tick, impl, steps, npcs, gurus, phase, wpc>>

\* get_doctrine_override(); r is its first random draw
GetDoctrineOverride ==
    /\ calls < MaxUnitCalls
    /\ \E rnd \in CallDraws(npc) :
          /\ rnd.jit = [z \in WorkZones |-> 0]
          /\ obs' = [NoObs EXCEPT !.forced = get_doctrine_override(npc, rnd),
                                  !.r = rnd.r_over]
    /\ lastOp' = "get_doctrine_override"
    /\ arg' = NoArg
    /\ ret' = "None"
    /\ calls' = calls + 1
    /\ UNCHANGED <<npc, tick, impl, steps, npcs, gurus, phase, wpc>>

\* act(anchors, config, tick) at the start of a work cycle; forced is what
\* get_doctrine_override returned to decide_work_zone
ActAtCycleStart ==
    /\ calls < MaxUnitCalls
    /\ AtBoundary(npc, tick)
    /\ \E rnd \in CallDraws(npc) :
          /\ npc' = act(npc, tick, rnd)
          /\ obs' = [NoObs EXCEPT !.forced = get_doctrine_override(npc, rnd),
                                  !.r = rnd.r_over]
    /\ tick' = tick + 1
    /\ lastOp' = "act"
    /\ arg' = NoArg
    /\ ret' = "None"
    /\ steps' = steps + 1
    /\ calls' = calls + 1
    /\ UNCHANGED <<impl, npcs, gurus, phase, wpc>>

\* deepen_indoctrination(tick); r is the draw of the escape predicate
Deepen ==
    /\ calls < MaxUnitCalls
    /\ \E r \in {0, 5000} :
          /\ npc' = deepen_indoctrination(npc, tick, r)
          /\ obs' = [NoObs EXCEPT !.r = r]
    /\ lastOp' = "deepen_indoctrination"
    /\ arg' = NoArg
    /\ ret' = "None"
    /\ calls' = calls + 1
    /\ UNCHANGED <<tick, impl, steps, npcs, gurus, phase, wpc>>

\* expose_to_doctrine(doctrine_type, guru_id, tick)
CallExpose ==
    /\ calls < MaxUnitCalls
    /\ \E d \in Doctrines, g \in GuruIds, r \in RandDraws :
          LET res == expose_to_doctrine(npc, d, g, tick, r)
          IN /\ npc' = res[1]
             /\ arg' = [doctrine |-> d, guru_id |-> g]
             /\ ret' = IF res[2] THEN "True" ELSE "False"
             /\ obs' = [NoObs EXCEPT !.r = r]
    /\ lastOp' = "expose_to_doctrine"
    /\ calls' = calls + 1
    /\ UNCHANGED <<tick, impl, steps, npcs, gurus, phase, wpc>>

\* get_doctrine_tension(doc1, doc2)
GetDoctrineTension ==
    /\ calls < MaxUnitCalls
    /\ \E d1 \in TensionArgs, d2 \in TensionArgs :
          obs' = [NoObs EXCEPT !.doc1 = d1, !.doc2 = d2,
                               !.tension = get_doctrine_tension(d1, d2)]
    /\ lastOp' = "get_doctrine_tension"
    /\ arg' = NoArg
    /\ ret' = "None"
    /\ calls' = calls + 1
    /\ UNCHANGED <<npc, tick, impl, steps, npcs, gurus, phase, wpc>>

\* one entry appended to one of the three logs of the agent
AppendLog ==
    /\ calls < MaxUnitCalls
    /\ \/ npc' = [npc EXCEPT !.doctrine_history =
                      deque_append(HistoryMaxLen, @, Entry(tick, "NONE", "RECOVERED"))]
       \/ npc' = [npc EXCEPT !.trust_log =
                      deque_append(TrustLogMaxLen, @, <<"HONOR", tick>>)]
       \/ npc' = [npc EXCEPT !.decision_history =
                      deque_append(DecisionHistoryMaxLen, @,
                                   [phase |-> npc.cycle_phase, tick |-> tick])]
    /\ obs' = NoObs
    /\ lastOp' = "append"
    /\ arg' = NoArg
    /\ ret' = "None"
    /\ calls' = calls + 1
    /\ UNCHANGED <<tick, impl, steps, npcs, gurus, phase, wpc>>

CallNext ==
    \/ DecideWorkZone
    \/ GetDoctrineOverride
    \/ ActAtCycleStart
    \/ Deepen
    \/ CallExpose
    \/ GetDoctrineTension
    \/ AppendLog

CallSpec == CallInit /\ [][CallNext]_vars

(***************************************************************************)
(* perform_work called directly, on agents in any state and zone, with     *)
(* resources at the ends and in the middle of their ranges                 *)
(***************************************************************************)
WorkInit ==
    \E st \in {"AT_HOME", "TRAVELING", "AT_WORK"}, z \in WorkZones \cup {""},
       m \in {0, 10, 150 * R}, e \in {0, 5 * R, 100 * R},
       sx \in {0, 50 * R, 100 * R}, se \in {0, 7000, U}, g \in BOOLEAN :
        /\ (g => z = "PANTHEON")
        /\ npc = [Fresh EXCEPT !.state = st, !.zone = z, !.money = m, !.energy = e,
                               !.stress_endured = sx, !.self_esteem = se,
                               !.is_guru = g,
                               !.pantheon_visit_count = IF g THEN GuruVisits ELSE 0]
        /\ impl = "NPC"
        /\ tick = 0
        /\ lastOp = "init"
        /\ arg = NoArg
        /\ ret = "None"
        /\ steps = 0
        /\ calls = 0
        /\ npcs = <<>>
        /\ gurus = <<>>
        /\ phase = "none"
        /\ wpc = 0
        /\ obs = NoObs

\* perform_work(config)
PerformWork ==
    /\ calls < MaxUnitCalls
    /\ npc' = perform_work(npc)
    /\ lastOp' = "perform_work"
    /\ calls' = calls + 1
    /\ UNCHANGED <<tick, impl, arg, ret, steps, npcs, gurus, phase, wpc, obs>>

WorkSpec == WorkInit /\ [][PerformWork]_vars

(***************************************************************************)
(* Travel.  An agent that has just left home for a work zone, or a work    *)
(* zone for home, and the ticks of the main loop until it is there; the    *)
(* loop calls act in every tick, so a tick that can be taken is taken.     *)
(***************************************************************************)
\* more ticks than the longest way across the display takes
TravelBound == Hypot(DisplayWidth * P, DisplayHeight * P) \div Speed + 2

TravelInit ==
    \E im \in {"NPC", "Mixin"}, res \in DOMAIN ResourceCases, z \in WorkZones,
       back \in BOOLEAN :
        /\ impl = im
        /\ npc = [Fresh EXCEPT
                    !.money = ResourceCases[res][1],
                    !.energy = ResourceCases[res][2],
                    !.stress_endured = ResourceCases[res][3],
                    !.coherence = ResourceCases[res][4],
                    !.state = "TRAVELING",
                    !.target = IF back THEN "HOME" ELSE z,
                    !.x = IF back THEN _build_anchors[z][1] ELSE Home[1],
                    !.y = IF back THEN _build_anchors[z][2] ELSE Home[2],
                    !.cycle_phase = IF back THEN "RETURNING" ELSE "COMMUTING",
                    !.travel_budget = travel_budget,
                    !.work_budget = IF back THEN 0 ELSE work_budget]
        /\ obs = [NoObs EXCEPT !.chosen = IF back THEN "HOME" ELSE z]
        /\ tick = IF back THEN 3 * ShiftDuration + 1 ELSE 2 * ShiftDuration + 1
        /\ lastOp = "init"
        /\ arg = NoArg
        /\ ret = "None"
        /\ steps = 0
        /\ calls = 0
        /\ npcs = <<>>
        /\ gurus = <<>>
        /\ phase = "none"
        /\ wpc = 0

\* World.step(tick) for an agent that is travelling, then global_tick += 1
TravelTick ==
    /\ steps < TravelBound
    /\ npc.state = "TRAVELING"
    /\ \E rnd \in ActDraws(npc, tick) : npc' = act(npc, tick, rnd)
    /\ tick' = tick + 1
    /\ lastOp' = "act"
    /\ steps' = steps + 1
    /\ UNCHANGED <<impl, arg, ret, calls, npcs, gurus, phase, wpc, obs>>

\* what enables TravelTick and what every TravelTick step does
TickTaken == steps < TravelBound /\ npc.state = "TRAVELING" /\ steps' = steps + 1

TravelSpec == TravelInit /\ [][TravelTick]_vars /\ WF_steps(TickTaken)

(***************************************************************************)
(* PANTHEON residents.  A guru at work in PANTHEON, and agents about to    *)
(* arrive there with a work budget that does or does not last ten ticks;   *)
(* obs.r keeps the budget the agent came with.                             *)
(***************************************************************************)
\* the ticks it takes to arrive, work ten times and stay a little
ResidentBound == GuruVisits + 3

ResidentInit ==
    \E im \in {"NPC", "Mixin"}, res \in DOMAIN ResourceCases,
       c \in {"guru", "guru_spent", "long", "longer", "short"} :
        LET budget == CASE c = "guru" -> work_budget
                        [] c = "guru_spent" -> 1
                        [] c = "long" -> GuruVisits
                        [] c = "longer" -> GuruVisits + 1
                        [] c = "short" -> work_budget
            base == [Fresh EXCEPT
                       !.money = ResourceCases[res][1],
                       !.energy = ResourceCases[res][2],
                       !.stress_endured = ResourceCases[res][3],
                       !.coherence = ResourceCases[res][4],
                       !.x = _build_anchors["PANTHEON"][1],
                       !.y = _build_anchors["PANTHEON"][2],
                       !.travel_budget = travel_budget,
                       !.work_budget = budget]
        IN /\ impl = im
           /\ npc = IF c \in {"guru", "guru_spent"}
                    THEN [base EXCEPT !.state = "AT_WORK", !.zone = "PANTHEON",
                                      !.cycle_phase = "WORKING", !.is_guru = TRUE,
                                      !.pantheon_visit_count = GuruVisits,
                                      !.pantheon_doctrine_bias = 300 * GuruVisits,
                                      !.pantheon_doctrine_type = "COHERENCE"]
                    ELSE [base EXCEPT !.state = "TRAVELING", !.target = "PANTHEON",
                                      !.x = @ + P, !.cycle_phase = "COMMUTING"]
           /\ obs = [NoObs EXCEPT !.chosen = "PANTHEON",
                                  !.r = IF c \in {"guru", "guru_spent"} THEN 0 ELSE budget]
           /\ tick = 2 * ShiftDuration + 2
           /\ lastOp = "init"
           /\ arg = NoArg
           /\ ret = "None"
           /\ steps = 0
           /\ calls = 0
           /\ npcs = <<>>
           /\ gurus = <<>>
           /\ phase = "none"
           /\ wpc = 0

\* World.step(tick) for this agent, then global_tick += 1
ResidentTick ==
    /\ steps < ResidentBound
    /\ \E rnd \in ActDraws(npc, tick) : npc' = act(npc, tick, rnd)
    /\ tick' = tick + 1
    /\ lastOp' = "act"
    /\ steps' = steps + 1
    /\ UNCHANGED <<impl, arg, ret, calls, npcs, gurus, phase, wpc, obs>>

ResidentSpec == ResidentInit /\ [][ResidentTick]_vars

(***************************************************************************)
(* The two expose_to_doctrine side by side.  One agent without a profile,  *)
(* of any archetype; a call exposes it to a doctrine under NPC and under   *)
(* DoctrineMixin with the same draw, and npcs holds the two agents that    *)
(* come out, obs.returns the two values returned.                          *)
(***************************************************************************)

\* stress_endured below, at and above the 80 where stress_factor reaches
\* 1.0, and coherence over the unit interval
TwinStress == {0, 10 * R, 40 * R, 80 * R, 100 * R}

TwinCoherence == {0, 3500, 7000, U}

TwinInit ==
    /\ \E a \in Archetypes, st \in TwinStress, c \in TwinCoherence :
          npc = [Fresh EXCEPT !.archetype = a, !.stress_endured = st,
                              !.coherence = c]
    /\ impl = "NPC"
    /\ tick = CallTick /\ steps = 0 /\ calls = 0 /\ wpc = 0
    /\ arg = NoArg /\ ret = "None" /\ obs = NoObs
    /\ npcs = <<>> /\ gurus = <<>>
    /\ phase = "run" /\ lastOp = "init"

\* expose_to_doctrine(doctrine_type, guru_id, tick) of both classes on the
\* same agent, random.random() giving r in both
ExposeBoth ==
    /\ \E d \in Doctrines, g \in GuruIds, r \in RandDraws :
          LET a == NPC_expose_to_doctrine(npc, d, g, tick, r)
              b == Mixin_expose_to_doctrine(npc, d, g, tick, r)
          IN /\ npcs' = <<a[1], b[1]>>
             /\ arg' = [doctrine |-> d, guru_id |-> g]
             /\ obs' = [NoObs EXCEPT !.r = r, !.returns = <<a[2], b[2]>>]
    /\ lastOp' = "expose_to_doctrine"
    /\ UNCHANGED <<npc, tick, impl, ret, steps, calls, gurus, phase, wpc>>

TwinSpec == TwinInit /\ [][ExposeBoth]_vars

(***************************************************************************)
(* Properties                                                              *)
(***************************************************************************)
Held(n) == Profile(n).doctrine_type
LastEntry(n) == n.doctrine_history[Len(n.doctrine_history)]
Logged(n, ev) == \E i \in 1..Len(n.doctrine_history) : n.doctrine_history[i].event = ev

\* C1: after every tick (NPC.act) the agent has energy in [0,100],
\* stress_endured in [0,100], money >= 0 and coherence in [0,1].
C1_ResourcesInRange ==
    lastOp = "act" =>
        /\ npc.energy >= 0 /\ npc.energy <= 100 * R
        /\ npc.stress_endured >= 0 /\ npc.stress_endured <= 100 * R
        /\ npc.money >= 0
        /\ npc.coherence >= 0 /\ npc.coherence <= U

\* C2: on every tick that starts with deradicalization_timer > 0 the timer
\* ends exactly one lower; it is never reset or held before reaching 0.
C2_TimerFallsByOne ==
    [][(lastOp' = "act" /\ npc.deradicalization_timer > 0)
          => npc'.deradicalization_timer = npc.deradicalization_timer - 1]_vars

\* C3: under per-tick stepping the profile is cleared exactly on the tick in
\* which the timer goes from 1 to 0: None at the end of that tick, still
\* present at the end of every earlier tick of the recovery.
C3_ClearedWhenTimerReachesZero ==
    [][(lastOp' = "act" /\ HasProfile(npc) /\ npc.deradicalization_timer > 0)
          => /\ npc'.deradicalization_timer = 0 => ~HasProfile(npc')
             /\ npc'.deradicalization_timer > 0 => HasProfile(npc')]_vars

\* C4: whenever an agent has begun deradicalization (ESCAPE_BEGUN logged,
\* timer set), repeated ticks of World.step bring it to doctrine_profile
\* None with a RECOVERED event logged.  The ticks advance the recovery only
\* while the timer is above 0 (npc.py:500), so the recovery has to be over
\* when the ticks have run the timer down: a begun recovery whose timer
\* reads 0 after a tick has no profile and RECOVERED in its history.
C4_RecoveredWhenTimerRunsOut ==
    (/\ lastOp = "act" /\ Logged(npc, "ESCAPE_BEGUN")
     /\ npc.deradicalization_timer = 0)
        => (~HasProfile(npc) /\ Logged(npc, "RECOVERED"))

\* C5: exposing an agent to the doctrine it already holds returns False and
\* changes nothing but the strength of the profile: doctrine_type, guru_id
\* and time_indoctrinated stay, no second profile appears, doctrine_history
\* and deradicalization_timer stay.
C5_SameDoctrineKeepsProfile ==
    [][(lastOp' = "expose_to_doctrine" /\ HasProfile(npc)
        /\ arg'.doctrine = Held(npc))
          => /\ ret' = "False"
             /\ Len(npc'.doctrine_profile) = 1
             /\ Profile(npc').doctrine_type = Profile(npc).doctrine_type
             /\ Profile(npc').guru_id = Profile(npc).guru_id
             /\ Profile(npc').time_indoctrinated = Profile(npc).time_indoctrinated
             /\ npc'.doctrine_history = npc.doctrine_history
             /\ npc'.deradicalization_timer = npc.deradicalization_timer
             /\ npc' = [npc EXCEPT !.doctrine_profile[1].strength =
                                       Profile(npc').strength]]_vars

\* a same-doctrine exposure by another guru of a profile that has been held
\* for some ticks, and whose strength the call raised
C5_Witness ==
    /\ lastOp = "expose_to_doctrine" /\ ret = "False"
    /\ HasProfile(npc) /\ arg.doctrine = Held(npc)
    /\ arg.guru_id # Profile(npc).guru_id
    /\ Profile(npc).time_indoctrinated > 0
    /\ Profile(npc).strength = 5100

\* C6: for an agent that holds a profile, an exposure to a different
\* doctrine returns False and leaves doctrine_type and guru_id of the held
\* profile as they were, whatever the random draw.
C6_NoAdoptionWhileHolding ==
    [][(lastOp' = "expose_to_doctrine" /\ HasProfile(npc)
        /\ arg'.doctrine # Held(npc))
          => /\ ret' = "False"
             /\ HasProfile(npc')
             /\ Profile(npc').doctrine_type = Profile(npc).doctrine_type
             /\ Profile(npc').guru_id = Profile(npc).guru_id]_vars

\* C7: when a conflicting exposure pushes conflict_dissonance of the held
\* profile above 1.0, the same call sets deradicalization_timer to the
\* recovery time of the held doctrine and appends DOCTRINE_COLLAPSE, then
\* ESCAPE_BEGUN, both with the held doctrine and the current tick.
C7_CollapseBeginsDeradicalization ==
    [][(/\ lastOp' = "expose_to_doctrine" /\ HasProfile(npc)
        /\ arg'.doctrine # Held(npc)
        /\ HasProfile(npc')
        /\ Profile(npc').conflict_dissonance > Profile(npc).conflict_dissonance
        /\ Profile(npc').conflict_dissonance > U)
          => /\ npc'.deradicalization_timer = recovery_time(Held(npc))
             /\ npc'.doctrine_history =
                    HistoryAppend(
                        HistoryAppend(npc.doctrine_history,
                                      Entry(tick, Held(npc), "DOCTRINE_COLLAPSE")),
                        Entry(tick, Held(npc), "ESCAPE_BEGUN"))
             /\ Held(npc') = Held(npc)]_vars

\* a collapse: the exposure left the dissonance above 1.0, and the recovery
\* time differs from that of the incoming doctrine
C7_Witness ==
    /\ lastOp = "expose_to_doctrine" /\ HasProfile(npc)
    /\ Profile(npc).conflict_dissonance > U
    /\ arg.doctrine # Held(npc)
    /\ recovery_time(arg.doctrine) # recovery_time(Held(npc))
    /\ npc.deradicalization_timer = recovery_time(Held(npc))
    /\ LastEntry(npc).event = "ESCAPE_BEGUN"

\* C8: once is_guru is True it is True in every later state, whatever
\* ticks, work effects, exposures and deradicalization steps follow.
C8_GuruIsMonotonic == [][npc.is_guru => npc'.is_guru]_vars

\* an agent made a guru by its tenth PANTHEON visit that has gone on working
C8_Witness ==
    /\ npc.is_guru /\ npc.pantheon_visit_count > GuruVisits
    /\ lastOp = "act"

\* C9: from an agent with a profile and timer n > 0, calling
\* update_deradicalization until the timer reads 0 leaves doctrine_profile
\* None and a RECOVERED entry last in doctrine_history.
C9_UpdatesUntilZeroRecover ==
    [][(/\ lastOp' = "update_deradicalization" /\ HasProfile(npc)
        /\ npc.deradicalization_timer > 0
        /\ npc'.deradicalization_timer = 0)
          => /\ ~HasProfile(npc')
             /\ Len(npc'.doctrine_history) > 0
             /\ LastEntry(npc').event = "RECOVERED"]_vars

\* what one DoctrineMixin exposure of a MERITOCRATIC holder to REVOLUTIONARY
\* does with the given tension: dissonance + tension, strength - 0.3 tension
\* floored at 0, stress + 10 tension capped at 100
MeritVsRevolutionary(tension) ==
    (/\ lastOp' = "expose_to_doctrine" /\ impl = "Mixin" /\ HasProfile(npc)
      /\ Held(npc) = "MERITOCRATIC" /\ arg'.doctrine = "REVOLUTIONARY")
          => /\ HasProfile(npc')
             /\ Profile(npc').conflict_dissonance =
                    Profile(npc).conflict_dissonance + tension
             /\ Profile(npc').strength =
                    Max(0, Profile(npc).strength - (3 * tension) \div 10)
             /\ npc'.stress_endured = Min(100 * R, npc.stress_endured + tension \div 10)
             /\ \A g \in GuruIds, r1, r2 \in RandDraws :
                    Mixin_expose_to_doctrine(npc, "REVOLUTIONARY", g, tick, r1)
                    = Mixin_expose_to_doctrine(npc, "REVOLUTIONARY", g, tick, r2)

\* C10 as stated: for an agent holding MERITOCRATIC, one exposure to
\* REVOLUTIONARY uses tension +0.10: conflict_dissonance rises by 0.10,
\* strength falls by 0.03, stress_endured rises by 1.0, no random draw.
C10_TensionTenth == [][MeritVsRevolutionary(1000)]_vars

\* C10 amended: for an agent holding MERITOCRATIC, one exposure to
\* REVOLUTIONARY through DoctrineMixin.expose_to_doctrine uses tension
\* +0.09: conflict_dissonance rises by 0.09, strength falls by 0.027
\* (floored at 0), stress_endured rises by 0.9 (capped at 100), no random
\* draw.
C10_TensionNineHundredths == [][MeritVsRevolutionary(900)]_vars

\* a MERITOCRATIC holder just exposed to REVOLUTIONARY, from no dissonance
C10_Witness ==
    /\ lastOp = "expose_to_doctrine" /\ impl = "Mixin" /\ HasProfile(npc)
    /\ Held(npc) = "MERITOCRATIC" /\ arg.doctrine = "REVOLUTIONARY"
    /\ Profile(npc).conflict_dissonance = 900
    /\ Profile(npc).strength = 4730

\* C11: the state changes only along AT_HOME -> TRAVELING -> AT_WORK ->
\* TRAVELING -> AT_HOME.  An agent leaves home with a work zone as target and
\* leaves work with HOME as target, the target is kept for the whole journey,
\* and the journey ends AT_WORK exactly when the target is a zone and AT_HOME
\* exactly when it is HOME: so a journey from home ends at work and a journey
\* from work ends at home.
C11_StateCycle ==
    [][/\ (npc'.state # npc.state =>
              <<npc.state, npc'.state>> \in
                  {<<"AT_HOME", "TRAVELING">>, <<"TRAVELING", "AT_WORK">>,
                   <<"AT_WORK", "TRAVELING">>, <<"TRAVELING", "AT_HOME">>})
       /\ (npc.state = "AT_HOME" /\ npc'.state = "TRAVELING" =>
              npc'.target \in WorkZones)
       /\ (npc.state = "AT_WORK" /\ npc'.state = "TRAVELING" =>
              npc'.target = "HOME")
       /\ (npc.state = "TRAVELING" /\ npc'.state = "TRAVELING" =>
              npc'.target = npc.target)
       /\ (npc.state = "TRAVELING" /\ npc'.state = "AT_WORK" =>
              npc.target \in WorkZones)
       /\ (npc.state = "TRAVELING" /\ npc'.state = "AT_HOME" =>
              npc.target = "HOME")]_vars

\* an agent on its way back from work has moved and then arrived at home
C11_Witness ==
    /\ lastOp = "act" /\ steps = 2
    /\ npc.state = "AT_HOME" /\ npc.cycle_phase = "RESTING"
    /\ npc.x = Home[1] /\ npc.y = Home[2]
    /\ npc.travel_budget = travel_budget /\ npc.work_budget = 0

\* C12: an agent leaves AT_HOME only in a tick with
\* (tick - shift_offset) mod (2 * shift_duration) = 0 and tick > shift_offset;
\* in every other tick an agent at home stays at home, has no target and
\* keeps its work_budget and travel_budget.
C12_LeavesHomeOnlyAtCycleStart ==
    [][npc.state = "AT_HOME" =>
         /\ (npc'.state # "AT_HOME" =>
                /\ lastOp' = "act" /\ npc'.state = "TRAVELING"
                /\ (tick - npc.shift_offset) % (2 * ShiftDuration) = 0
                /\ tick > npc.shift_offset)
         /\ (lastOp' = "act"
              /\ ~((tick - npc.shift_offset) % (2 * ShiftDuration) = 0
                   /\ tick > npc.shift_offset) =>
                /\ npc'.state = "AT_HOME" /\ npc'.target = ""
                /\ npc'.work_budget = npc.work_budget
                /\ npc'.travel_budget = npc.travel_budget)]_vars

\* an agent waited at home through tick 2*shift_duration - 1 and left in
\* tick 2*shift_duration
C12_Witness ==
    /\ lastOp = "act" /\ steps = 2 /\ tick = 2 * ShiftDuration + 1
    /\ npc.state = "TRAVELING" /\ npc.cycle_phase = "COMMUTING"
    /\ npc.target \in WorkZones

\* C13: an agent arrives at work with work_budget = shift_duration -
\* int(shift_duration * travel_ratio); every tick at work applies one zone
\* effect and takes one off the budget; while the budget is positive the
\* agent stays at work in its zone, and in the tick the budget reaches 0 it
\* gets target HOME, no zone and state TRAVELING, unless it is a guru in
\* PANTHEON, who stays.
C13_WorksOutItsBudget ==
    [][lastOp' = "act" =>
         /\ (npc.state = "TRAVELING" /\ npc'.state = "AT_WORK" =>
                npc'.work_budget = ShiftDuration
                                   - (ShiftDuration * TravelRatioPct) \div 100)
         /\ (npc.state = "AT_WORK" /\ npc.zone # "" =>
                /\ npc'.work_budget = npc.work_budget - 1
                /\ (npc.zone = "PANTHEON" =>
                       npc'.pantheon_visit_count = npc.pantheon_visit_count + 1)
                /\ IF npc'.work_budget <= 0
                      /\ ~(npc'.is_guru /\ npc.zone = "PANTHEON")
                   THEN /\ npc'.state = "TRAVELING" /\ npc'.target = "HOME"
                        /\ npc'.zone = ""
                   ELSE /\ npc'.state = "AT_WORK" /\ npc'.zone = npc.zone
                        /\ npc'.target = npc.target)]_vars

\* an agent that is no guru has worked the last tick of its shift in TRADE
\* and is on its way home
C13_Witness ==
    /\ lastOp = "act" /\ ~npc.is_guru
    /\ npc.state = "TRAVELING" /\ npc.target = "HOME" /\ npc.zone = ""
    /\ npc.cycle_phase = "RETURNING" /\ npc.work_budget = 0
    /\ npc.x = _build_anchors["TRADE"][1] /\ npc.y = _build_anchors["TRADE"][2]

\* C14: an agent created with no id given gets an id greater than the id of
\* every agent created before it, so the agents of a world populated by its
\* constructor have different ids.
C14_IdsIncrease ==
    [][lastOp' = "NPC" =>
         \A j \in 1..Len(npcs) : npcs'[Len(npcs')].id > npcs[j].id]_vars

\* C15: an exposure attempt on an agent whose deradicalization_timer is above
\* 0 leaves the timer as it was, whatever the doctrine.
C15_ExposureKeepsTimer ==
    [][(lastOp' = "expose_to_doctrine" /\ npc.deradicalization_timer > 0) =>
          npc'.deradicalization_timer = npc.deradicalization_timer]_vars

C20_CollapseIsOneShot ==
    [][LET decayed == Max(0, Min(U, (npc.coherence * CoherenceInertiaPct) \div 100
                                      - npc.stress_endured \div 10))
       IN /\ (npc.is_collapsing =>
                 /\ npc'.is_collapsing
                 /\ npc'.collapse_cycle_count = npc.collapse_cycle_count)
          /\ (~npc.is_collapsing /\ lastOp' = "act" /\ decayed < CollapseThreshold =>
                 /\ npc'.is_collapsing
                 /\ npc'.collapse_cycle_count = npc.collapse_cycle_count + 1)
          /\ (~npc.is_collapsing /\ ~(lastOp' = "act" /\ decayed < CollapseThreshold) =>
                 /\ ~npc'.is_collapsing
                 /\ npc'.collapse_cycle_count = npc.collapse_cycle_count)]_vars

\* an agent collapsed in its first tick and has lived two more ticks with a
\* coherence below 0.3 without collapsing again
C20_Witness ==
    /\ lastOp = "act" /\ steps = 3
    /\ npc.is_collapsing /\ npc.collapse_cycle_count = 1
    /\ npc.coherence < CollapseThreshold

C18_SpreadInfluenceIsSelective ==
    [][lastOp' \in {"spread_influence", "call spread_influence"} =>
         LET g == arg'.guru_id
             passed_over(n) ==
                 \/ n.id = g \/ n.is_guru
                 \/ (n.x - ReferencePoint) * (n.x - ReferencePoint)
                    + (n.y - ReferencePoint) * (n.y - ReferencePoint)
                    > InfluenceRadius * InfluenceRadius
         IN /\ (~Registered(gurus, g) => npcs' = npcs /\ gurus' = gurus)
            /\ Len(npcs') = Len(npcs) /\ Len(gurus') = Len(gurus)
            /\ \A i \in 1..Len(npcs) : passed_over(npcs[i]) => npcs'[i] = npcs[i]
            /\ \A k \in 1..Len(gurus) :
                  /\ gurus'[k] = [gurus[k] EXCEPT !.followers = gurus'[k].followers]
                  /\ gurus[k].followers \subseteq gurus'[k].followers
                  /\ \A id \in gurus'[k].followers \ gurus[k].followers :
                        /\ gurus[k].guru_id = g
                        /\ \E i \in 1..Len(npcs) :
                              /\ npcs[i].id = id /\ ~passed_over(npcs[i])
                              /\ npcs'[i].doctrine_profile =
                                     <<NewProfile(gurus[k].doctrine_type, g)>>
                              /\ LastEntry(npcs'[i]) =
                                     Entry(tick, gurus[k].doctrine_type, "EXPOSED")
                              /\ Len(npcs'[i].doctrine_history)
                                     = Len(npcs[i].doctrine_history) + 1]_vars

\* guru 1 has won agent 2 as a follower, with a guru (agent 1), a second
\* guru made in PANTHEON (agent 3) standing next to it
C18_Witness ==
    /\ lastOp \in {"spread_influence", "call spread_influence"}
    /\ Len(gurus) = 1 /\ gurus[1].guru_id = 1 /\ gurus[1].followers = {2}
    /\ Len(npcs) = 3 /\ npcs[3].is_guru /\ ~HasProfile(npcs[3])
    /\ HasProfile(npcs[2]) /\ Profile(npcs[2]).guru_id = 1

\* C19: every agent with is_guru has a GuruProfile registered under its id,
\* and two guru agents never share an id, hence never a profile.
C19_OneProfilePerGuru ==
    \A i \in 1..Len(npcs) :
        npcs[i].is_guru =>
            /\ Registered(gurus, npcs[i].id)
            /\ \A j \in 1..Len(npcs) :
                  (j # i /\ npcs[j].is_guru) => npcs[j].id # npcs[i].id

\* C22: for an agent that holds no profile, expose_to_doctrine returns True
\* exactly when it creates a profile, and that profile has the doctrine and
\* the guru id of the call, strength 0.1 and no time indoctrinated, with an
\* EXPOSED entry for the doctrine and the tick appended to the history; when
\* it returns False the agent (profile, history, timer, resources) is as it was
C22_ExposeOfUnindoctrinated ==
    [][lastOp' = "expose_to_doctrine" /\ ~HasProfile(npc) =>
          /\ (ret' = "True") = HasProfile(npc')
          /\ ret' \in {"True", "False"}
          /\ (ret' = "True" =>
                 /\ Profile(npc').doctrine_type = arg'.doctrine
                 /\ Profile(npc').guru_id = arg'.guru_id
                 /\ Profile(npc').strength = 1000
                 /\ Profile(npc').time_indoctrinated = 0
                 /\ npc'.doctrine_history =
                        HistoryAppend(npc.doctrine_history,
                                      Entry(tick, arg'.doctrine, "EXPOSED"))
                 /\ npc'.deradicalization_timer = npc.deradicalization_timer)
          /\ (ret' = "False" => npc' = npc)]_vars

\* an exposure has indoctrinated an agent; DoctrineMixin attempts it only on
\* an agent without a profile
C22_Witness ==
    /\ impl = "Mixin"
    /\ lastOp = "expose_to_doctrine"
    /\ ret = "True"
    /\ HasProfile(npc)
    /\ Held(npc) = arg.doctrine
    /\ LastEntry(npc) = Entry(tick, arg.doctrine, "EXPOSED")

\* C29: pantheon_visit_count goes up by exactly 1 per visit to PANTHEON, a
\* visit being one work trip from home to PANTHEON and back: the tick of
\* work that opens the stay (the work budget is still whole) adds 1 and the
\* later ticks of the same stay add nothing; is_guru turns True exactly when
\* the count reaches 10 and never while it is below 10
C29_OneVisitPerTrip ==
    [][lastOp' = "act" /\ npc.state = "AT_WORK" /\ npc.zone = "PANTHEON" =>
          /\ npc'.pantheon_visit_count =
                 IF npc.work_budget = work_budget
                 THEN npc.pantheon_visit_count + 1
                 ELSE npc.pantheon_visit_count
          /\ (~npc.is_guru /\ npc'.is_guru => npc'.pantheon_visit_count = GuruVisits)
          /\ (~npc.is_guru /\ npc'.pantheon_visit_count = GuruVisits /\
              npc.pantheon_visit_count < GuruVisits => npc'.is_guru)]_vars

\* the anchor of a zone, and how far the agent is from it
AnchorOf(name) == _build_anchors[name]
DistanceTo(n, name) == Hypot(AnchorOf(name)[1] - n.x, AnchorOf(name)[2] - n.y)
AtAnchor(n, name) == n.x = AnchorOf(name)[1] /\ n.y = AnchorOf(name)[2]

C30_AtWorkAtAnchor ==
    npc.state = "AT_WORK" /\ npc.zone \in WorkZones => AtAnchor(npc, npc.zone)

C30_Arrives ==
    lastOp' = "act" /\ npc.state = "TRAVELING" /\ npc.target \in AnchorNames
    /\ DistanceTo(npc, npc.target) < ArrivalRadius =>
        /\ AtAnchor(npc', npc.target)
        /\ npc'.target = ""
        /\ (npc.target \in WorkZones =>
               npc'.state = "AT_WORK" /\ npc'.zone = npc.target)
        /\ (npc.target = "HOME" => npc'.state = "AT_HOME")

\* C30: on the tick a TRAVELING agent is within distance 3 of the anchor of
\* its target, its position becomes exactly the anchor, its target is
\* cleared, and it is AT_WORK with zone = target (a work zone) or AT_HOME
\* (target HOME); hence in every state an AT_WORK agent stands on the anchor
\* of its zone
C30_ArrivalSnapsToAnchor == []C30_AtWorkAtAnchor /\ [][C30_Arrives]_vars

\* an agent that came within reach of the TRADE anchor has been put on it
\* and works there, its work budget still whole
C30_Witness ==
    /\ lastOp = "act"
    /\ steps = 1
    /\ npc.state = "AT_WORK" /\ npc.zone = "TRADE"
    /\ npc.work_budget = work_budget
    /\ npc.target = ""
    /\ AtAnchor(npc, "TRADE")

\* C21: at the start of a work cycle, a zone that the doctrine override
\* yields is what decide_work_zone returns, even when energy < 15, and the
\* agent sets out for it; with no override and energy < 15 it returns HOME
\* and the agent stays AT_HOME; with no override and energy >= 15 it returns
\* one of the five work zones, never HOME
C21_ZoneChoice ==
    [][/\ (lastOp' = "decide_work_zone" =>
              /\ (obs'.forced # "" => obs'.chosen = obs'.forced)
              /\ (obs'.forced = "" /\ npc.energy < 15 * R => obs'.chosen = "HOME")
              /\ (obs'.forced = "" /\ npc.energy >= 15 * R =>
                     obs'.chosen \in WorkZones))
       /\ (lastOp' = "act" /\ AtBoundary(npc, tick) =>
              LET rested == Min(100 * R, npc.energy + 80)
              IN /\ (obs'.forced # "" =>
                        npc'.state = "TRAVELING" /\ npc'.target = obs'.forced)
                 /\ (obs'.forced = "" /\ rested < 15 * R =>
                        npc'.state = "AT_HOME" /\ npc'.target = "")
                 /\ (obs'.forced = "" /\ rested >= 15 * R =>
                        npc'.state = "TRAVELING" /\ npc'.target \in WorkZones))]_vars

\* an exhausted agent has been sent to work by its doctrine
C21_Witness ==
    /\ lastOp = "decide_work_zone"
    /\ npc.energy < 15 * R
    /\ obs.forced \in WorkZones
    /\ obs.chosen = obs.forced

\* log2 is log after k appends to a deque of maximal length maxlen: the
\* oldest entries have gone, as many as did not fit, the others are there
\* in the order they had, and the k new entries follow them
AfterAppends(maxlen, log, log2, k) ==
    /\ Len(log2) = Min(maxlen, Len(log) + k)
    /\ LET evicted == Len(log) + k - Len(log2)
       IN SubSeq(log2, 1, Len(log2) - k) = SubSeq(log, evicted + 1, Len(log))

\* one call appends at most three entries (a collapse, an escape, a recovery)
RingBuffer(maxlen, log, log2) ==
    \E k \in 0..3 : AfterAppends(maxlen, log, log2, k)

C23_Bounded ==
    /\ Len(npc.doctrine_history) <= HistoryMaxLen
    /\ Len(npc.trust_log) <= TrustLogMaxLen
    /\ Len(npc.decision_history) <= DecisionHistoryMaxLen

C23_Evicts ==
    /\ RingBuffer(HistoryMaxLen, npc.doctrine_history, npc'.doctrine_history)
    /\ RingBuffer(TrustLogMaxLen, npc.trust_log, npc'.trust_log)
    /\ RingBuffer(DecisionHistoryMaxLen, npc.decision_history, npc'.decision_history)
    /\ (lastOp' = "append" =>
           \/ /\ AfterAppends(HistoryMaxLen, npc.doctrine_history,
                              npc'.doctrine_history, 1)
              /\ LastEntry(npc') = Entry(tick, "NONE", "RECOVERED")
           \/ /\ AfterAppends(TrustLogMaxLen, npc.trust_log, npc'.trust_log, 1)
              /\ npc'.trust_log[Len(npc'.trust_log)] = <<"HONOR", tick>>
           \/ /\ AfterAppends(DecisionHistoryMaxLen, npc.decision_history,
                              npc'.decision_history, 1)
              /\ npc'.decision_history[Len(npc'.decision_history)].tick = tick)

\* C23: the logs are bounded ring buffers: doctrine_history never holds more
\* than 50 entries, trust_log never more than 300, decision_history never
\* more than 80; an append to a full log evicts exactly the oldest entry and
\* keeps the others in insertion order
C23_LogsAreRingBuffers == []C23_Bounded /\ [][C23_Evicts]_vars

\* an exposure has written to a full doctrine_history: the entry that was
\* second is now the oldest, the new one is the last of fifty
C23_Witness ==
    /\ lastOp = "expose_to_doctrine"
    /\ ret = "True"
    /\ Len(npc.doctrine_history) = HistoryMaxLen
    /\ npc.doctrine_history[1].tick = 2
    /\ LastEntry(npc) = Entry(tick, arg.doctrine, "EXPOSED")

\* C24: the strength of a held profile is in [0, 1] in every reachable
\* state, whatever exposures (same doctrine, synergy, conflict) and deepen
\* steps are applied
C24_StrengthInUnitInterval ==
    HasProfile(npc) => Profile(npc).strength >= 0 /\ Profile(npc).strength <= U

\* C25: get_doctrine_tension(d, d) is 0; an ordered pair that is not in the
\* compatibility matrix gets the default 0.02 instead of a failure; two
\* distinct doctrines among the five registered ones never have tension 0,
\* so that DoctrineMixin.expose_to_doctrine on an agent that holds another
\* doctrine always takes the synergy or the conflict branch, never the
\* attempt: it returns False and the agent keeps the profile it had, either
\* strengthened (synergy) or with more dissonance (conflict)
C25_TensionLookup ==
    [][/\ (lastOp' = "get_doctrine_tension" =>
              LET d1 == obs'.doc1
                  d2 == obs'.doc2
              IN /\ (d1 = d2 => obs'.tension = 0)
                 /\ (d1 # d2 /\ (d1 \notin Doctrines \/ d2 \notin Doctrines) =>
                        obs'.tension = DefaultTension)
                 /\ (d1 # d2 /\ d1 \in Doctrines /\ d2 \in Doctrines =>
                        obs'.tension # 0))
       /\ (lastOp' = "expose_to_doctrine" /\ impl = "Mixin" /\ HasProfile(npc)
           /\ Held(npc) # arg'.doctrine =>
              /\ ret' = "False"
              /\ HasProfile(npc')
              /\ Held(npc') = Held(npc)
              /\ Profile(npc').guru_id = Profile(npc).guru_id
              /\ \/ /\ Profile(npc').conflict_dissonance = Profile(npc).conflict_dissonance
                    /\ Profile(npc').strength >= Profile(npc).strength
                    /\ (Profile(npc').strength > Profile(npc).strength
                        \/ Profile(npc).strength = U)
                    /\ npc'.self_esteem > npc.self_esteem
                 \/ /\ Profile(npc').conflict_dissonance > Profile(npc).conflict_dissonance
                    /\ Profile(npc').strength <= Profile(npc).strength)]_vars

\* the tension of a value that is no key of the matrix has been asked for,
\* and the default came back
C25_Witness ==
    /\ lastOp = "get_doctrine_tension"
    /\ obs.doc1 = "SOVEREIGN_INDIVIDUALIST"
    /\ obs.doc2 = "MERITOCRATIC"
    /\ obs.tension = DefaultTension

\* C26: deepen_indoctrination on an agent with a profile: if the escape
\* predicate of the held doctrine holds, or conflict_dissonance > 0.8,
\* deradicalization begins (the timer becomes the recovery time of the
\* doctrine and ESCAPE_BEGUN is logged) and strength, time_indoctrinated and
\* conflict_dissonance are left as they were; otherwise time_indoctrinated
\* goes up by 1, strength becomes min(1.0, strength + 0.02) and no
\* deradicalization begins.  On an agent without a profile nothing changes.
C26_DeepenOrEscape ==
    [][lastOp' = "deepen_indoctrination" =>
          IF ~HasProfile(npc) THEN npc' = npc
          ELSE IF EscapeHolds(npc, obs'.r) \/ Profile(npc).conflict_dissonance > 8000
          THEN /\ npc'.deradicalization_timer = recovery_time(Held(npc))
               /\ npc'.doctrine_history =
                      HistoryAppend(npc.doctrine_history,
                                    Entry(tick, Held(npc), "ESCAPE_BEGUN"))
               /\ npc'.doctrine_profile = npc.doctrine_profile
          ELSE /\ HasProfile(npc')
               /\ Profile(npc').time_indoctrinated = Profile(npc).time_indoctrinated + 1
               /\ Profile(npc').strength = Min(U, Profile(npc).strength + 200)
               /\ npc'.deradicalization_timer = npc.deradicalization_timer
               /\ npc'.doctrine_history = npc.doctrine_history]_vars

\* an agent whose dissonance had passed 0.8 has begun its recovery
C26_Witness ==
    /\ lastOp = "deepen_indoctrination"
    /\ HasProfile(npc)
    /\ Profile(npc).conflict_dissonance > 8000
    /\ npc.deradicalization_timer = recovery_time(Held(npc))
    /\ LastEntry(npc) = Entry(tick, Held(npc), "ESCAPE_BEGUN")

\* a synergy exposure of DoctrineMixin: the held doctrine and the one
\* encountered have a negative tension; the strength rises by |tension| and
\* the self-esteem by pct percent of |tension|, both capped at 1.0, while
\* conflict_dissonance, stress_endured and the timer stay, and the call
\* returns False
SynergyGain(pct) ==
    lastOp' = "expose_to_doctrine" /\ impl = "Mixin" /\ HasProfile(npc)
    /\ Held(npc) # arg'.doctrine
    /\ get_doctrine_tension(Held(npc), arg'.doctrine) < 0 =>
        LET gain == Abs(get_doctrine_tension(Held(npc), arg'.doctrine))
        IN /\ ret' = "False"
           /\ HasProfile(npc')
           /\ Profile(npc').strength = Min(U, Profile(npc).strength + gain)
           /\ npc'.self_esteem = Min(U, npc.self_esteem + (gain * pct) \div 100)
           /\ Profile(npc').conflict_dissonance = Profile(npc).conflict_dissonance
           /\ npc'.stress_endured = npc.stress_endured
           /\ npc'.deradicalization_timer = npc.deradicalization_timer

\* C27 as claimed: a synergy exposure raises the strength by |tension| and
\* the self-esteem by |tension|, both capped at 1.0, leaves
\* conflict_dissonance, stress_endured and the timer unchanged and returns
\* False
C27_EsteemByTension == [][SynergyGain(100)]_vars

\* C27 as the code has it: a synergy exposure raises the strength by
\* |tension| and the self-esteem by half of |tension|, both capped at 1.0,
\* leaves conflict_dissonance, stress_endured and the timer unchanged and
\* returns False
C27_EsteemByHalfTension == [][SynergyGain(50)]_vars

\* an agent holding MERITOCRATIC at full strength has met LIBERTARIAN_CULT
\* (tension -0.015): the strength stays at the cap, the self-esteem has gone
\* from 0.7 to 0.7075
C27_Witness ==
    /\ impl = "Mixin"
    /\ lastOp = "expose_to_doctrine"
    /\ calls = 1
    /\ ret = "False"
    /\ HasProfile(npc)
    /\ Held(npc) = "MERITOCRATIC"
    /\ arg.doctrine = "LIBERTARIAN_CULT"
    /\ Profile(npc).strength = U
    /\ npc.self_esteem = 7075

\* C28: get_doctrine_override returns None for an agent without a profile;
\* for a MERITOCRATIC profile TRADE only when money < 50 and None otherwise;
\* for a REVOLUTIONARY profile only DEVELOPMENT, PANTHEON or None; for every
\* other doctrine only its forces_zone or None; and the chance of a result
\* other than None scales with the strength of the profile: a draw above
\* override_frequency x strength yields None, so a profile of strength 0
\* never overrides
C28_OverrideScalesWithStrength ==
    [][lastOp' = "get_doctrine_override" =>
          IF ~HasProfile(npc) THEN obs'.forced = ""
          ELSE /\ (Held(npc) = "MERITOCRATIC" =>
                      obs'.forced = "" \/ (obs'.forced = "TRADE" /\ npc.money < 50 * R))
               /\ (Held(npc) = "REVOLUTIONARY" =>
                      obs'.forced \in {"", "DEVELOPMENT", "PANTHEON"})
               /\ (Held(npc) \notin {"MERITOCRATIC", "REVOLUTIONARY"} =>
                      obs'.forced \in {"", forces_zone(Held(npc))})
               /\ (obs'.r > (override_frequency(Held(npc)) * Profile(npc).strength) \div U =>
                      obs'.forced = "")
               /\ (Profile(npc).strength = 0 /\ obs'.r > 0 => obs'.forced = "")]_vars

\* C31: after every call of perform_work, in every zone and from every
\* in-range state, money >= 0, energy is in [0, 100] and stress_endured is
\* in [0, 100]; and the call changes nothing at all when the agent is not
\* AT_WORK or has no zone
C31_WorkClampsResources ==
    [][lastOp' = "perform_work" =>
          /\ npc'.money >= 0
          /\ npc'.energy >= 0 /\ npc'.energy <= 100 * R
          /\ npc'.stress_endured >= 0 /\ npc'.stress_endured <= 100 * R
          /\ (npc.state # "AT_WORK" \/ npc.zone = "" => npc' = npc)]_vars

\* an agent without energy has worked in FLEX, which costs 10 energy, and
\* has 0 energy, not less
C31_Witness ==
    /\ lastOp = "perform_work"
    /\ calls = 1
    /\ npc.state = "AT_WORK" /\ npc.zone = "FLEX"
    /\ npc.energy = 0
    /\ npc.stress_endured < 50 * R /\ npc.stress_endured > 0

\* C32: an agent is indoctrinated with a doctrine only when the exposure
\* predicate of that doctrine holds for it at the time of the exposure:
\* expose_to_doctrine never creates a profile for an agent that fails it
C32_ExposedOnlyIfEligible ==
    [][lastOp' = "expose_to_doctrine" /\ ret' = "True" =>
          ExposureHolds(npc, arg'.doctrine)]_vars

C33_AtMostOneCollapse ==
    /\ npc.collapse_cycle_count \in {0, 1}
    /\ ~ExposureHolds(npc, "REVOLUTIONARY")
    /\ (HasProfile(npc) /\ Held(npc) = "TRANSCENDENT" => ~EscapeHolds(npc, 0))

C33_NoTranscendentEscape ==
    lastOp' = "act" /\ HasProfile(npc) /\ Held(npc) = "TRANSCENDENT"
    /\ Profile(npc).conflict_dissonance <= 8000 =>
        /\ npc'.deradicalization_timer <= npc.deradicalization_timer
        /\ (npc'.doctrine_history # npc.doctrine_history =>
               LastEntry(npc').event # "ESCAPE_BEGUN")

\* C33: in every state reached by ticks from a new agent,
\* collapse_cycle_count is 0 or 1; so the REVOLUTIONARY exposure predicate
\* (collapse_cycle_count > 2) and the TRANSCENDENT escape predicate
\* (collapse_cycle_count > 3) never hold, and a TRANSCENDENT profile never
\* begins deradicalization through its escape predicate
C33_CollapseCountedOnce == []C33_AtMostOneCollapse /\ [][C33_NoTranscendentEscape]_vars

\* an agent holding TRANSCENDENT has collapsed and its coherence is below
\* 0.4: of its escape predicate only the collapse count is missing
C33_Witness ==
    /\ lastOp = "act"
    /\ npc.collapse_cycle_count = 1
    /\ HasProfile(npc) /\ Held(npc) = "TRANSCENDENT"
    /\ npc.coherence < 4000
    /\ npc.deradicalization_timer = 0

\* C34: in every reachable state, target is set if and only if the state is
\* TRAVELING, and zone is a work zone if and only if the state is AT_WORK
\* (zone is empty while AT_HOME or TRAVELING)
C34_TargetAndZoneFollowState ==
    /\ (npc.target # "") = (npc.state = "TRAVELING")
    /\ (npc.zone \in WorkZones) = (npc.state = "AT_WORK")
    /\ (npc.state \in {"AT_HOME", "TRAVELING"} => npc.zone = "")

\* an agent has worked its last tick in TRADE and is on its way home: the
\* zone is empty again and the target is HOME
C34_Witness ==
    /\ lastOp = "act"
    /\ steps = 1
    /\ npc.state = "TRAVELING"
    /\ npc.cycle_phase = "RETURNING"
    /\ npc.target = "HOME"
    /\ npc.zone = ""
    /\ npc.work_budget = 0
    /\ npc.x = AnchorOf("TRADE")[1]

\* C35: every agent that enters TRAVELING with a target that is in the
\* anchor map reaches that target after finitely many ticks: 4 units per
\* tick toward it and an arrival window of distance < 3 cannot overshoot
\* and oscillate, so TRAVELING is never a permanent state
C35_TravelEnds ==
    (npc.state = "TRAVELING" /\ npc.target = obs.chosen)
        ~> (npc.state # "TRAVELING" /\ AtAnchor(npc, obs.chosen))

\* an agent has walked from home to TRADE, the longest way, in five ticks
C35_Witness ==
    /\ lastOp = "act"
    /\ steps >= 5
    /\ obs.chosen = "TRADE"
    /\ npc.state = "AT_WORK" /\ npc.zone = "TRADE"
    /\ AtAnchor(npc, "TRADE")

\* a guru at work in PANTHEON is there after the tick too, one tick of
\* budget poorer
C36_GuruStays ==
    lastOp' = "act" /\ npc.is_guru /\ npc.state = "AT_WORK" /\ npc.zone = "PANTHEON" =>
        /\ npc'.is_guru
        /\ npc'.state = "AT_WORK" /\ npc'.zone = "PANTHEON"
        /\ npc'.work_budget = npc.work_budget - 1

\* an agent that came to PANTHEON with a budget of ten ticks or more is
\* never at home or on its way home again, and is a guru at work in
\* PANTHEON from its tenth tick of work on
C36_LongShiftMakesResident ==
    obs.r >= GuruVisits =>
        /\ npc.state # "AT_HOME"
        /\ npc.target # "HOME"
        /\ (npc.state = "AT_WORK" /\ obs.r - npc.work_budget >= GuruVisits =>
               npc.is_guru /\ npc.zone = "PANTHEON")
        /\ (npc.state = "AT_WORK" /\ obs.r - npc.work_budget < GuruVisits =>
               ~npc.is_guru /\ npc.work_budget > 0)

\* C36: once an agent is a guru and AT_WORK in PANTHEON it stays AT_WORK in
\* PANTHEON on every later tick, its work_budget decreasing below 0 without
\* a return; and an agent that is no guru and arrives AT_WORK in PANTHEON
\* with work_budget >= 10 becomes such a permanent resident during that
\* same shift and never returns AT_HOME
C36_PantheonResidents == []C36_LongShiftMakesResident /\ [][C36_GuruStays]_vars

\* an agent that came with a budget of exactly ten has worked it out, is a
\* guru, and is still at work in PANTHEON with the budget below 0
C36_Witness ==
    /\ lastOp = "act"
    /\ obs.r = GuruVisits
    /\ npc.is_guru
    /\ npc.state = "AT_WORK" /\ npc.zone = "PANTHEON"
    /\ npc.work_budget < 0

\* the largest recovery time a doctrine is configured with
LargestRecoveryTime ==
    CHOOSE m \in {recovery_time(d) : d \in Doctrines} :
        \A d \in Doctrines : recovery_time(d) <= m

C37_TimerInRange ==
    /\ npc.deradicalization_timer >= 0
    /\ npc.deradicalization_timer <= LargestRecoveryTime
    /\ (~HasProfile(npc) /\ ~Logged(npc, "EXPOSED") => npc.deradicalization_timer = 0)

C37_RaisedByEscapeOnly ==
    npc'.deradicalization_timer > npc.deradicalization_timer =>
        /\ HasProfile(npc)
        /\ lastOp' \in {"act", "expose_to_doctrine"}
        /\ \E i \in 1..Len(npc'.doctrine_history) :
              npc'.doctrine_history[i] = Entry(tick, Held(npc), "ESCAPE_BEGUN")
        /\ npc'.deradicalization_timer \in
               {recovery_time(Held(npc)), recovery_time(Held(npc)) - 1}

\* C37: in every reachable state 0 <= deradicalization_timer <= 400, the
\* largest configured recovery time; the timer is 0 for an agent that has
\* never held a profile; and the timer is raised only by
\* begin_deradicalization called on an agent that holds a profile
C37_TimerBounds == []C37_TimerInRange /\ [][C37_RaisedByEscapeOnly]_vars

\* an agent holding TRANSCENDENT has begun its recovery in an exposure to a
\* conflicting doctrine: the timer stands at 400
C37_Witness ==
    /\ lastOp = "expose_to_doctrine"
    /\ HasProfile(npc)
    /\ Held(npc) = "TRANSCENDENT"
    /\ npc.deradicalization_timer = LargestRecoveryTime
    /\ LastEntry(npc).event = "ESCAPE_BEGUN"

\* C38: while an agent is recovering the doctrine it is leaving is not
\* strengthened: across a tick that starts with deradicalization_timer > 0
\* the strength and the time_indoctrinated of the held profile do not
\* increase
C38_NoDeepeningInRecovery ==
    [][lastOp' = "act" /\ npc.deradicalization_timer > 0
       /\ HasProfile(npc) /\ HasProfile(npc') =>
          /\ Profile(npc').strength <= Profile(npc).strength
          /\ Profile(npc').time_indoctrinated <= Profile(npc).time_indoctrinated]_vars

\* every agent whose profile names a registered guru is in that guru's
\* follower set
C39_ProfileImpliesFollower ==
    \A i \in 1..Len(npcs) : \A k \in 1..Len(gurus) :
        (HasProfile(npcs[i]) /\ Profile(npcs[i]).guru_id = gurus[k].guru_id)
            => npcs[i].id \in gurus[k].followers

\* no agent was made a new follower of two gurus within one tick
C39_OneGuruPerTick ==
    \A p \in obs.gained : \A q \in obs.gained : p[2] = q[2] => p[1] = q[1]

\* C39: under World.step with gurus spreading, an agent that holds a profile
\* whose guru_id is a registered guru g has its id in g's follower set, and
\* within one tick at most one guru gains a given agent as a new follower,
\* also when gurus of different doctrines reach the same agent in that tick.
C39_FollowersConsistent ==
    C39_ProfileImpliesFollower /\ C39_OneGuruPerTick

\* C40: for an agent that holds no profile, NPC.expose_to_doctrine and
\* DoctrineMixin.expose_to_doctrine compute the same susceptibility for every
\* archetype, doctrine, stress and coherence, so that with the same draw they
\* return the same value and leave the same agent, with the same profile.
C40_SameExposure ==
    lastOp = "expose_to_doctrine" =>
        /\ Susceptibility(vulnerability(npc.archetype, arg.doctrine), npc)
               = Susceptibility(ARCHETYPE_VULNERABILITIES[npc.archetype][arg.doctrine], npc)
        /\ obs.returns[1] = obs.returns[2]
        /\ npcs[1] = npcs[2]

====
